---- MODULE Spec2Model ----
(***************************************************************************)
(* Structo design-check and section-selection engine                      *)
(* (src/calculations.py, src/constants.py).                               *)
(*                                                                         *)
(* Every engine operation is a function called by the UI layer; the state  *)
(* is the call in progress: which operation, its arguments, what it        *)
(* returned or raised. The module-level objects the operations read (the   *)
(* yield-strength dict, the two safety factors) are state too, shared by   *)
(* the threads of the concurrent specification ConcSpec, each of which     *)
(* runs one operation read by read.                                        *)
(*                                                                         *)
(* Python floats are modelled as exact rationals over arbitrary-precision  *)
(* naturals (TLC integers are 32 bit; span_mm**4 alone is 6.25e14).        *)
(* np.sqrt is truncated to SqrtLimbs significant base-10^4 limbs, np.pi    *)
(* is the 16-digit decimal of the double. The arithmetic is written as     *)
(* TLA+ functions, so that an operand is evaluated once, as Python does.   *)
(***************************************************************************)
EXTENDS Integers, Sequences, FiniteSets, TLC

VARIABLES op, args, result, globals, threads

vars == <<op, args, result, globals, threads>>

---------------------------------------------------------------------------
(* Arbitrary-precision naturals: little-endian sequences of limbs < Base,  *)
(* no leading (high) zero limb; zero is <<>>.                              *)

Base == 100 * 100

Limbs == Seq(Nat)

BOf[n \in Nat] ==
    IF n = 0 THEN <<>> ELSE <<n % Base>> \o BOf[n \div Base]

BTrim[a \in Limbs] ==
    IF a = <<>> THEN a
    ELSE IF a[Len(a)] = 0 THEN BTrim[SubSeq(a, 1, Len(a) - 1)]
    ELSE a

BCmpAt[a \in Limbs, b \in Limbs, i \in Nat] ==
    IF i = 0 THEN 0
    ELSE IF a[i] < b[i] THEN -1
    ELSE IF a[i] > b[i] THEN 1
    ELSE BCmpAt[a, b, i - 1]

BCmp[a \in Limbs, b \in Limbs] ==
    IF Len(a) < Len(b) THEN -1
    ELSE IF Len(a) > Len(b) THEN 1
    ELSE BCmpAt[a, b, Len(a)]

\* limb i of a, zero beyond its length
BLimb[a \in Limbs, i \in Nat] == IF i <= Len(a) THEN a[i] ELSE 0

\* a + b from limb i on, with carry c
BAddC[a \in Limbs, b \in Limbs, i \in Nat, c \in Nat] ==
    IF i > Len(a) /\ i > Len(b) THEN (IF c = 0 THEN <<>> ELSE <<c>>)
    ELSE <<(BLimb[a, i] + BLimb[b, i] + c) % Base>>
         \o BAddC[a, b, i + 1, (BLimb[a, i] + BLimb[b, i] + c) \div Base]

BAdd[a \in Limbs, b \in Limbs] == BAddC[a, b, 1, 0]

\* a - b from limb i on, with borrow c
BSubC[a \in Limbs, b \in Limbs, i \in Nat, c \in Nat] ==
    IF i > Len(a) THEN <<>>
    ELSE <<(a[i] - BLimb[b, i] - c) % Base>>
         \o BSubC[a, b, i + 1, IF a[i] - BLimb[b, i] - c < 0 THEN 1 ELSE 0]

\* a - b for a >= b
BSub[a \in Limbs, b \in Limbs] == BTrim[BSubC[a, b, 1, 0]]

\* a * k + c from limb i on, for a limb k
BMulLimbAt[a \in Limbs, k \in Nat, i \in Nat, c \in Nat] ==
    IF i > Len(a) THEN (IF c = 0 THEN <<>> ELSE <<c>>)
    ELSE <<(a[i] * k + c) % Base>>
         \o BMulLimbAt[a, k, i + 1, (a[i] * k + c) \div Base]

BMulLimb[a \in Limbs, k \in Nat] == BMulLimbAt[a, k, 1, 0]

\* a * (b from limb i on)
BMulAt[a \in Limbs, b \in Limbs, i \in Nat] ==
    IF i > Len(b) THEN <<>>
    ELSE BAdd[BMulLimb[a, b[i]], <<0>> \o BMulAt[a, b, i + 1]]

BMul[a \in Limbs, b \in Limbs] ==
    IF a = <<>> \/ b = <<>> THEN <<>> ELSE BTrim[BMulAt[a, b, 1]]

\* a * Base^k
BShift[a \in Limbs, k \in Nat] ==
    IF a = <<>> \/ k = 0 THEN a ELSE BShift[<<0>> \o a, k - 1]

Min2[a \in Int, b \in Int] == IF a < b THEN a ELSE b

Max2[a \in Int, b \in Int] == IF a < b THEN b ELSE a

\* greatest t in lo..hi with b * t <= cur  (true at t = lo)
QuotSearch[cur \in Limbs, b \in Limbs, lo \in Nat, hi \in Nat] ==
    IF lo >= hi THEN lo
    ELSE IF BCmp[BMulLimb[b, (lo + hi + 1) \div 2], cur] <= 0
    THEN QuotSearch[cur, b, (lo + hi + 1) \div 2, hi]
    ELSE QuotSearch[cur, b, lo, (lo + hi + 1) \div 2 - 1]

\* the two leading limbs of cur, seen from the length of b
LeadOf[cur \in Limbs, k \in Nat] ==
    (IF Len(cur) > k THEN cur[k + 1] * Base ELSE 0) + cur[k]

\* floor(cur / b) for cur < b * Base: bracketed by the leading limbs
QuotLimb[cur \in Limbs, b \in Limbs] ==
    IF BCmp[cur, b] < 0 THEN 0
    ELSE QuotSearch[cur, b, LeadOf[cur, Len(b)] \div (b[Len(b)] + 1),
                    Min2[Base - 1, LeadOf[cur, Len(b)] \div b[Len(b)]]]

\* long division, limb i of a downwards: cur is the remainder with limb i
\* brought down, t its quotient limb, q the quotient limbs so far
BDivAt[a \in Limbs, b \in Limbs, i \in Nat, cur \in Limbs, t \in Nat, q \in Limbs] ==
    IF i = 1 THEN <<t>> \o q
    ELSE BDivAt[a, b, i - 1,
                BTrim[<<a[i - 1]>> \o BSub[cur, BMulLimb[b, t]]],
                QuotLimb[BTrim[<<a[i - 1]>> \o BSub[cur, BMulLimb[b, t]]], b],
                <<t>> \o q]

\* floor(a / b) for b > 0 whose leading limb is large
BDivNorm[a \in Limbs, b \in Limbs] ==
    IF a = <<>> THEN a
    ELSE BTrim[BDivAt[a, b, Len(a), <<a[Len(a)]>>, QuotLimb[<<a[Len(a)]>>, b], <<>>]]

\* floor(a / b) for b > 0; both are scaled so that b's leading limb is large
BDiv[a \in Limbs, b \in Limbs] ==
    BDivNorm[BMulLimb[a, Base \div (b[Len(b)] + 1)],
             BMulLimb[b, Base \div (b[Len(b)] + 1)]]

\* floor(a / 2)
BHalf[a \in Limbs] ==
    IF a = <<>> THEN a ELSE BTrim[Tail(BMulLimb[a, Base \div 2])]

\* floor(sqrt(k)) for an integer 0 <= k < Base^2
ISqrtIn[k \in Nat, lo \in Nat, hi \in Nat] ==
    IF lo = hi THEN lo
    ELSE IF ((lo + hi + 1) \div 2) * ((lo + hi + 1) \div 2) <= k
    THEN ISqrtIn[k, (lo + hi + 1) \div 2, hi]
    ELSE ISqrtIn[k, lo, (lo + hi + 1) \div 2 - 1]

ISqrt[k \in Nat] == ISqrtIn[k, 0, Base - 1]

\* Newton's iteration downwards from r >= floor(sqrt(m)); r2 is the next iterate
SqrtNewton[m \in Limbs, r \in Limbs, r2 \in Limbs] ==
    IF BCmp[r2, r] < 0
    THEN SqrtNewton[m, r2, BHalf[BAdd[r2, BDiv[m, r2]]]]
    ELSE r

SqrtFrom[m \in Limbs, r \in Limbs] ==
    SqrtNewton[m, r, BHalf[BAdd[r, BDiv[m, r]]]]

\* floor(sqrt(m)); the first guess comes from the two leading limbs
BSqrt[m \in Limbs] ==
    IF Len(m) = 0 THEN m
    ELSE IF Len(m) = 1 THEN BOf[ISqrt[m[1]]]
    ELSE IF Len(m) = 2 THEN BOf[ISqrt[m[2] * Base + m[1]]]
    ELSE IF Len(m) % 2 = 0
    THEN SqrtFrom[m, BShift[BOf[ISqrt[m[Len(m)] * Base + m[Len(m) - 1]] + 1],
                            (Len(m) - 2) \div 2]]
    ELSE SqrtFrom[m, BShift[BOf[(ISqrt[m[Len(m)] * Base + m[Len(m) - 1]] + 1) * 100],
                            (Len(m) - 3) \div 2]]

---------------------------------------------------------------------------
(* Rationals s * n / d with s in {-1, 1}, n and d naturals, d > 0; zero    *)
(* has s = 1. A Python float or int is one of these.                       *)

Signs == {-1, 1}

Rat == [s : Signs, n : Limbs, d : Limbs]

Q[s \in Signs, n \in Limbs, d \in Limbs] ==
    [s |-> IF n = <<>> THEN 1 ELSE s, n |-> n, d |-> d]

QOf[i \in Int] == IF i < 0 THEN Q[-1, BOf[-i], <<1>>] ELSE Q[1, BOf[i], <<1>>]

\* the literal a/b, a and b naturals that fit an integer
QFrac[a \in Nat, b \in Nat] == Q[1, BOf[a], BOf[b]]

QNeg[x \in Rat] == Q[-x.s, x.n, x.d]

QMul[x \in Rat, y \in Rat] == Q[x.s * y.s, BMul[x.n, y.n], BMul[x.d, y.d]]

\* x / y for y # 0
QDiv[x \in Rat, y \in Rat] == Q[x.s * y.s, BMul[x.n, y.d], BMul[x.d, y.n]]

\* xs * xn / dd + ys * yn / dd
QSum[xs \in Signs, xn \in Limbs, ys \in Signs, yn \in Limbs, dd \in Limbs] ==
    IF xs = ys THEN Q[xs, BAdd[xn, yn], dd]
    ELSE IF BCmp[xn, yn] >= 0 THEN Q[xs, BSub[xn, yn], dd]
    ELSE Q[ys, BSub[yn, xn], dd]

QAdd[x \in Rat, y \in Rat] ==
    IF x.d = y.d THEN QSum[x.s, x.n, y.s, y.n, x.d]
    ELSE QSum[x.s, BMul[x.n, y.d], y.s, BMul[y.n, x.d], BMul[x.d, y.d]]

QSub[x \in Rat, y \in Rat] == QAdd[x, QNeg[y]]

QSign[x \in Rat] == IF x.n = <<>> THEN 0 ELSE x.s

\* -1, 0, 1 as x < y, x = y, x > y
QCmp[x \in Rat, y \in Rat] == QSign[QSub[x, y]]

QLe[x \in Rat, y \in Rat] == QCmp[x, y] <= 0

QLt[x \in Rat, y \in Rat] == QCmp[x, y] < 0

QEq[x \in Rat, y \in Rat] == QCmp[x, y] = 0

QMax2[x \in Rat, y \in Rat] == IF QLt[x, y] THEN y ELSE x

Q0 == QOf[0]

Q1 == QOf[1]

\* x ** k, k >= 1
QPow[x \in Rat, k \in Nat] == IF k = 1 THEN x ELSE QMul[x, QPow[x, k - 1]]

\* significant limbs of a square root (3 limbs: 9 to 12 decimal digits)
SqrtLimbs == 3

\* the even power of Base that brings x to 2 * SqrtLimbs limbs
SqrtScale[x \in Rat] ==
    (2 * SqrtLimbs - (Len(x.n) - Len(x.d)))
    + ((2 * SqrtLimbs - (Len(x.n) - Len(x.d))) % 2)

\* floor(sqrt(x * Base^s)) / Base^(s/2)
QSqrtAt[x \in Rat, s \in Int] ==
    IF s >= 0
    THEN Q[1, BSqrt[BDiv[BShift[x.n, s], x.d]], BShift[<<1>>, s \div 2]]
    ELSE Q[1, BShift[BSqrt[BDiv[SubSeq(x.n, 1 - s, Len(x.n)), x.d]], (-s) \div 2],
           <<1>>]

\* np.sqrt(x) for x >= 0, truncated to SqrtLimbs significant limbs
QSqrt[x \in Rat] == QSqrtAt[x, SqrtScale[x]]

\* a bound h with h * h >= x, by doubling
SqrtUpper[x \in Rat, h \in Nat] ==
    IF QLe[x, QOf[h * h]] THEN h ELSE SqrtUpper[x, 2 * h]

\* the least n in lo..hi with n * n >= x
CeilSqrtIn[x \in Rat, lo \in Nat, hi \in Nat] ==
    IF lo = hi THEN lo
    ELSE IF QLe[x, QOf[((lo + hi) \div 2) * ((lo + hi) \div 2)]]
    THEN CeilSqrtIn[x, lo, (lo + hi) \div 2]
    ELSE CeilSqrtIn[x, (lo + hi) \div 2 + 1, hi]

\* int(np.ceil(np.sqrt(x))) for x >= 0
CeilSqrt[x \in Rat] == CeilSqrtIn[x, 0, SqrtUpper[x, 1]]

\* int(np.ceil(a / b)) for integers a >= 0, b > 0
CeilDiv[a \in Nat, b \in Nat] == (a + b - 1) \div b

---------------------------------------------------------------------------
(* Python values: None, a returned value, a raised exception.              *)

None == <<>>

Ok(v) == [ok |-> TRUE, val |-> v]

Raise(kind, msg) == [ok |-> FALSE, raised |-> kind, message |-> msg]

\* d.get(k)
DictGet(d, k) == IF k \in DOMAIN d THEN d[k] ELSE None

\* Lower that leaves the string as written
LowerAsWritten(str) == str

\* str.lower() on the code and category strings the callers pass
Lower(str) ==
    CASE str \in {"Egyptian", "EGYPTIAN"} -> "egyptian"
      [] str \in {"American", "AMERICAN"} -> "american"
      [] str \in {"Floor", "FLOOR"} -> "floor"
      [] str \in {"Roof", "ROOF"} -> "roof"
      [] str \in {"kN", "KN"} -> "kn"
      [] str \in {"Kg", "KG"} -> "kg"
      [] str = "N" -> "n"
      [] str \in {"kN/m", "KN/M"} -> "kn/m"
      [] str \in {"Kg/m", "KG/M"} -> "kg/m"
      [] str \in {"N/m", "N/M"} -> "n/m"
      [] OTHER -> str

\* the element of a one-element set; {F(x) : x \in {v}} is an assignment
\* x = v followed by F(x): v is evaluated once, then named
TheOnly(S) == CHOOSE r \in S : TRUE

---------------------------------------------------------------------------
(* src/constants.py *)

\* the table with the default of select_optimal_section entered for "XYZ99"
YieldStrengthWithDefault ==
    [St37 |-> 240, St44 |-> 280, St52 |-> 360, St60 |-> 420, St70 |-> 490,
     A36 |-> 250, A572 |-> 345, A992 |-> 345, S235 |-> 235, S275 |-> 275,
     S355 |-> 355, S450 |-> 440, S500 |-> 500, XYZ99 |-> 250]

STEEL_YIELD_STRENGTH ==
    [St37 |-> 240, St44 |-> 280, St52 |-> 360, St60 |-> 420, St70 |-> 490,
     A36 |-> 250, A572 |-> 345, A992 |-> 345, S235 |-> 235, S275 |-> 275,
     S355 |-> 355, S450 |-> 440, S500 |-> 500]

STEEL_MODULUS_OF_ELASTICITY == 200000

SAFETY_FACTOR_EGYPTIAN == QFrac[15, 10]

SAFETY_FACTOR_AMERICAN == QFrac[167, 100]

\* KG_TO_KN = 0.00981
KG_TO_KN == QFrac[981, 100000]

\* np.pi = 3.141592653589793
NpPi == Q[1, <<9793, 5358, 5926, 3141>>, BShift[BOf[1000], 3]]

E_Q == QOf[STEEL_MODULUS_OF_ELASTICITY]

\* STEEL_YIELD_STRENGTH.get(steel_grade) is None
UnknownGrade(steel_grade) == steel_grade \notin DOMAIN STEEL_YIELD_STRENGTH

\* SafetyFactor with the code ignored: the American factor for every code
SafetyFactorAmericanOnly(code) == SAFETY_FACTOR_AMERICAN

\* SAFETY_FACTOR_EGYPTIAN if code.lower() == "egyptian" else SAFETY_FACTOR_AMERICAN
SafetyFactor(code) ==
    IF Lower(code) = "egyptian" THEN SAFETY_FACTOR_EGYPTIAN
    ELSE SAFETY_FACTOR_AMERICAN

\* StatusOf with a strict comparison: utilization exactly 1.0 is Unsafe
StatusOfStrict(utilization) == IF QLt[utilization, Q1] THEN "Safe" ELSE "Unsafe"

\* "Safe" if utilization <= 1.0 else "Unsafe"
StatusOf(utilization) == IF QLe[utilization, Q1] THEN "Safe" ELSE "Unsafe"

---------------------------------------------------------------------------
(* src/calculations.py: the checks *)

\* check_section_capacity with the capacity fy * Z, no safety factor applied
CapacityUnfactored(moment, section_modulus, steel_grade, code) ==
    IF UnknownGrade(steel_grade) THEN Raise("ValueError", "Unknown steel grade")
    ELSE Ok([status |-> StatusOf(QDiv[QMul[moment, QOf[1000000]],
                                      QMul[QOf[STEEL_YIELD_STRENGTH[steel_grade]],
                                           section_modulus]]),
             utilization |-> QDiv[QMul[moment, QOf[1000000]],
                                  QMul[QOf[STEEL_YIELD_STRENGTH[steel_grade]],
                                       section_modulus]],
             moment_capacity |-> QDiv[QMul[QOf[STEEL_YIELD_STRENGTH[steel_grade]],
                                           section_modulus], QOf[1000000]],
             safety_factor |-> SafetyFactor(code)])

check_section_capacity(moment, section_modulus, steel_grade, code) ==
    LET fy == STEEL_YIELD_STRENGTH[steel_grade]
    IN  IF UnknownGrade(steel_grade) THEN Raise("ValueError", "Unknown steel grade")
        ELSE
        LET moment_nmm      == QMul[moment, QOf[1000000]]
            safety_factor   == SafetyFactor(code)
            moment_capacity == QDiv[QMul[QOf[fy], section_modulus], safety_factor]
            utilization     == QDiv[moment_nmm, moment_capacity]
        IN  Ok([status |-> StatusOf(utilization),
                utilization |-> utilization,
                moment_capacity |-> QDiv[moment_capacity, QOf[1000000]],
                safety_factor |-> safety_factor])

\* UsesFloorLimit with the category compared as written, not lower-cased
UsesFloorLimitCaseSensitive(load_type, is_accessible) ==
    load_type = "floor" \/ is_accessible

\* load_type.lower() == "floor" or is_accessible
UsesFloorLimit(load_type, is_accessible) ==
    Lower(load_type) = "floor" \/ is_accessible

\* check_deflection with the limit chosen by the load category alone
CheckDeflectionByCategory(span, deflection, load_type, is_accessible) ==
    LET allowable_deflection ==
            IF Lower(load_type) = "floor" THEN QDiv[QMul[span, QOf[1000]], QOf[360]]
            ELSE QDiv[QMul[span, QOf[1000]], QOf[240]]
    IN  Ok([status |-> StatusOf(QDiv[deflection, allowable_deflection]),
            utilization |-> QDiv[deflection, allowable_deflection],
            allowable_deflection |-> allowable_deflection,
            limit_ratio |-> IF Lower(load_type) = "floor" THEN "L/360" ELSE "L/240"])

check_deflection(span, deflection, load_type, is_accessible) ==
    LET span_mm == QMul[span, QOf[1000]]
        allowable_deflection ==
            IF UsesFloorLimit(load_type, is_accessible)
            THEN QDiv[span_mm, QOf[360]]
            ELSE QDiv[span_mm, QOf[240]]
        utilization == QDiv[deflection, allowable_deflection]
    IN  Ok([status |-> StatusOf(utilization),
            utilization |-> utilization,
            allowable_deflection |-> allowable_deflection,
            limit_ratio |-> IF UsesFloorLimit(load_type, is_accessible)
                            THEN "L/360" ELSE "L/240"])

\* a section classified Compact as soon as one of the two ratios is within
\* its limit
CompactnessEitherRatio(flange_ratio, web_ratio, root, code) ==
    LET flange_compact == QLe[flange_ratio, QMul[QFrac[38, 100], root]]
        web_compact    == QLe[web_ratio, QMul[QFrac[376, 100], root]]
    IN  [classification |-> IF flange_compact \/ web_compact
                            THEN "Compact" ELSE "Non-Compact",
         flange_ratio |-> flange_ratio,
         web_ratio |-> web_ratio,
         flange_compact_limit |-> QMul[QFrac[38, 100], root],
         web_compact_limit |-> QMul[QFrac[376, 100], root],
         flange_status |-> IF flange_compact THEN "Compact" ELSE "Non-Compact",
         web_status |-> IF web_compact THEN "Compact" ELSE "Non-Compact"]

\* the ratios against the limits, once np.sqrt(E / fy) is known
CompactnessOf(flange_ratio, web_ratio, root, code) ==
    LET flange_compact_limit ==
            IF Lower(code) = "egyptian" THEN QMul[QFrac[38, 100], root]
            ELSE QMul[QFrac[38, 100], root]
        web_compact_limit ==
            IF Lower(code) = "egyptian" THEN QMul[QFrac[376, 100], root]
            ELSE QMul[QFrac[376, 100], root]
        flange_compact == QLe[flange_ratio, flange_compact_limit]
        web_compact    == QLe[web_ratio, web_compact_limit]
    IN  [classification |-> IF flange_compact /\ web_compact
                            THEN "Compact" ELSE "Non-Compact",
         flange_ratio |-> flange_ratio,
         web_ratio |-> web_ratio,
         flange_compact_limit |-> flange_compact_limit,
         web_compact_limit |-> web_compact_limit,
         flange_status |-> IF flange_compact THEN "Compact" ELSE "Non-Compact",
         web_status |-> IF web_compact THEN "Compact" ELSE "Non-Compact"]

\* check_compactness with the geometry read before the steel grade is looked up
CheckCompactnessGeometryFirst(section_properties, steel_grade, code) ==
    IF \/ DictGet(section_properties, "flange_thickness") = None
       \/ DictGet(section_properties, "height") = None
    THEN Raise("TypeError", "unsupported operand type(s)")
    ELSE IF \/ DictGet(section_properties, "width") = None
            \/ DictGet(section_properties, "web_thickness") = None
    THEN Raise("ValueError", "Missing section properties")
    ELSE IF UnknownGrade(steel_grade) THEN Raise("ValueError", "Unknown steel grade")
    ELSE Ok(TheOnly({CompactnessOf(QDiv[QDiv[section_properties.width, QOf[2]],
                                        section_properties.flange_thickness],
                                   QDiv[QSub[section_properties.height,
                                             QMul[QOf[2],
                                                  section_properties.flange_thickness]],
                                        section_properties.web_thickness],
                                   root, code) :
                     root \in {QSqrt[QDiv[E_Q, QOf[STEEL_YIELD_STRENGTH[steel_grade]]]]}}))

check_compactness(section_properties, steel_grade, code) ==
    LET fy == STEEL_YIELD_STRENGTH[steel_grade]
    IN  IF UnknownGrade(steel_grade) THEN Raise("ValueError", "Unknown steel grade")
        ELSE
        LET flange_width     == DictGet(section_properties, "width")
            flange_thickness == DictGet(section_properties, "flange_thickness")
            height           == DictGet(section_properties, "height")
            web_thickness    == DictGet(section_properties, "web_thickness")
        IN  \* height - 2 * flange_thickness is evaluated before the None test
            IF flange_thickness = None \/ height = None
            THEN Raise("TypeError", "unsupported operand type(s)")
            ELSE
            LET web_height == QSub[height, QMul[QOf[2], flange_thickness]]
            IN  IF None \in {flange_width, flange_thickness, web_height, web_thickness}
                THEN Raise("ValueError", "Missing section properties")
                ELSE
                Ok(TheOnly({CompactnessOf(QDiv[QDiv[flange_width, QOf[2]],
                                               flange_thickness],
                                          QDiv[web_height, web_thickness], root, code) :
                            root \in {QSqrt[QDiv[E_Q, QOf[fy]]]}}))

\* Indeterminate reported as a failed check
IndeterminateAsUnsafe == "Unsafe"

\* the status string of the LTB check when Iy, J or Cw is missing
Indeterminate == "Cannot determine - missing section properties"

\* the verdict once the critical moment Mcr (kN.m) is known
LtbVerdict(Mcr, moment, code) ==
    LET safety_factor   == SafetyFactor(code)
        design_capacity == QDiv[Mcr, safety_factor]
        utilization     == QDiv[moment, design_capacity]
    IN  [status |-> StatusOf(utilization),
         utilization |-> utilization,
         critical_moment |-> Mcr,
         design_capacity |-> design_capacity]

check_lateral_torsional_buckling(span, section_properties, steel_grade, moment, code) ==
    LET fy == STEEL_YIELD_STRENGTH[steel_grade]
        E  == E_Q
    IN  IF UnknownGrade(steel_grade) THEN Raise("ValueError", "Unknown steel grade")
        ELSE
        LET Iy == DictGet(section_properties, "Iy")
            J  == DictGet(section_properties, "J")
            Cw == DictGet(section_properties, "Cw")
        IN  IF None \in {Iy, J, Cw}
            THEN Ok([status |-> Indeterminate,
                     utilization |-> None,
                     note |-> "Detailed section properties (Iy, J, Cw) required for LTB check"])
            ELSE
            LET Lb      == QMul[span, QOf[1000]]
                G       == QDiv[E, QMul[QOf[2], QAdd[Q1, QFrac[3, 10]]]]
                Mcr_nmm == QMul[QDiv[NpPi, Lb],
                                QSqrt[QMul[QMul[QMul[E, Iy], G], J]]]
            IN  Ok(TheOnly({LtbVerdict(Mcr, moment, code) :
                            Mcr \in {QDiv[Mcr_nmm, QOf[1000000]]}}))

---------------------------------------------------------------------------
(* src/calculations.py: internal forces *)

\* convert_to_kn with every unit it does not know taken as kN
ConvertUnknownAsKn(value, unit) ==
    IF Lower(unit) \in {"kg", "kg/m"} THEN Ok(QMul[value, KG_TO_KN])
    ELSE IF Lower(unit) \in {"n", "n/m"} THEN Ok(QDiv[value, QOf[1000]])
    ELSE Ok(value)

convert_to_kn(value, unit) ==
    LET u == Lower(unit)
    IN  IF u = "kn" THEN Ok(value)
        ELSE IF u = "kg" THEN Ok(QMul[value, KG_TO_KN])
        ELSE IF u = "n" THEN Ok(QDiv[value, QOf[1000]])
        ELSE IF u = "kn/m" THEN Ok(value)
        ELSE IF u = "kg/m" THEN Ok(QMul[value, KG_TO_KN])
        ELSE IF u = "n/m" THEN Ok(QDiv[value, QOf[1000]])
        ELSE Raise("ValueError", "Unsupported unit")

\* the loop of calculate_total_load from component i on, total so far given;
\* a component that convert_to_kn refuses ends the call with its exception
RECURSIVE TotalLoadFrom(_, _, _)
TotalLoadFrom(loads, i, total) ==
    IF i > Len(loads) THEN Ok(total)
    ELSE IF ~convert_to_kn(loads[i].value, loads[i].unit).ok
    THEN convert_to_kn(loads[i].value, loads[i].unit)
    ELSE TotalLoadFrom(loads, i + 1,
                       QAdd[total, convert_to_kn(loads[i].value, loads[i].unit).val])

calculate_total_load(loads) == TotalLoadFrom(loads, 1, Q0)

calculate_moment(span, total_load, load_type) ==
    IF load_type = "uniform"
    THEN Ok(QDiv[QMul[total_load, QPow[span, 2]], QOf[8]])
    ELSE IF load_type = "point_center"
    THEN Ok(QDiv[QMul[total_load, span], QOf[4]])
    ELSE Raise("ValueError", "Unsupported load type")

\* calculate_shear_force with the uniform formula for every supported load type
ShearForceAlwaysUniform(span, total_load, load_type) ==
    IF load_type \in {"uniform", "point_center"}
    THEN Ok(QDiv[QMul[total_load, span], QOf[2]])
    ELSE Raise("ValueError", "Unsupported load type")

calculate_shear_force(span, total_load, load_type) ==
    IF load_type = "uniform"
    THEN Ok(QDiv[QMul[total_load, span], QOf[2]])
    ELSE IF load_type = "point_center"
    THEN Ok(QDiv[total_load, QOf[2]])
    ELSE Raise("ValueError", "Unsupported load type")

\* calculate_deflection with the uniform label for every load type when the
\* inertia is absent
DeflectionLabelAlwaysUniform(span, moment, modulus, inertia, load_type) ==
    IF inertia = None
    THEN Ok("5wL^4/(384EI)")
    ELSE IF load_type = "uniform"
    THEN Ok(QDiv[QMul[QMul[QOf[5], QDiv[QDiv[QMul[QOf[8], moment], QPow[span, 2]],
                                        QOf[1000000]]],
                      QPow[QMul[span, QOf[1000]], 4]],
                 QMul[QMul[QOf[384], modulus], inertia]])
    ELSE IF load_type = "point_center"
    THEN Ok(QDiv[QMul[QMul[QDiv[QMul[QOf[4], moment], span], QOf[1000]],
                      QPow[QMul[span, QOf[1000]], 3]],
                 QMul[QMul[QOf[48], modulus], inertia]])
    ELSE Raise("ValueError", "Unsupported load type")

\* the labels are "5wL⁴/(384EI)" and "PL³/(48EI)" in the source
calculate_deflection(span, moment, modulus, inertia, load_type) ==
    IF inertia = None
    THEN Ok(IF load_type = "uniform" THEN "5wL^4/(384EI)" ELSE "PL^3/(48EI)")
    ELSE
    LET span_mm == QMul[span, QOf[1000]]
    IN  IF load_type = "uniform"
        THEN LET w      == QDiv[QMul[QOf[8], moment], QPow[span, 2]]
                 w_n_mm == QDiv[w, QOf[1000000]]
             IN  Ok(QDiv[QMul[QMul[QOf[5], w_n_mm], QPow[span_mm, 4]],
                         QMul[QMul[QOf[384], modulus], inertia]])
        ELSE IF load_type = "point_center"
        THEN LET p   == QDiv[QMul[QOf[4], moment], span]
                 p_n == QMul[p, QOf[1000]]
             IN  Ok(QDiv[QMul[p_n, QPow[span_mm, 3]],
                         QMul[QMul[QOf[48], modulus], inertia]])
        ELSE Raise("ValueError", "Unsupported load type")

---------------------------------------------------------------------------
(* src/calculations.py: select_optimal_section *)

\* the I-Beam section properties of the rounded dimensions (mm)
IBeamSection[height \in Nat, width \in Nat, web_thickness \in Nat, flange_thickness \in Nat] ==
    LET h  == QOf[height]
        b  == QOf[width]
        tw == QOf[web_thickness]
        tf == QOf[flange_thickness]
        hw == QOf[height - 2 * flange_thickness]
        area == QAdd[QMul[QMul[QOf[2], b], tf], QMul[tw, hw]]
        Ix == QSub[QDiv[QMul[b, QPow[h, 3]], QOf[12]],
                   QDiv[QMul[QSub[b, tw], QPow[hw, 3]], QOf[12]]]
        Zx == QDiv[Ix, QDiv[h, QOf[2]]]
        Iy == QSub[QDiv[QMul[h, QPow[b, 3]], QOf[12]],
                   QDiv[QMul[hw, QPow[QSub[b, tw], 3]], QOf[12]]]
        J  == QMul[QFrac[1, 3],
                   QAdd[QMul[QMul[QOf[2], b], QPow[tf, 3]],
                        QMul[hw, QPow[tw, 3]]]]
        Cw == QDiv[QMul[Iy, QPow[QSub[h, tf], 2]], QOf[4]]
    IN  [name |-> <<"I", height, width, web_thickness, flange_thickness>>,
         type |-> "I-Beam",
         height |-> h, width |-> b,
         web_thickness |-> tw, flange_thickness |-> tf,
         area |-> area, Ix |-> Ix, Iy |-> Iy, Zx |-> Zx, J |-> J, Cw |-> Cw]

\* an I-Beam sized solid: the flanges take the whole height, no web is left
SynthIBeamSolid(required_Z) ==
    LET height0 == Max2[160, CeilSqrt[QDiv[required_Z, QOf[20]]]]
        width0  == Max2[82, CeilDiv[height0, 2]]
        web0    == Max2[5, CeilDiv[height0, 40]]
    IN  IBeamSection[CeilDiv[height0, 10] * 10,
                     CeilDiv[width0, 5] * 5,
                     Max2[5, CeilDiv[web0, 1] * 1],
                     (CeilDiv[height0, 10] * 10) \div 2]

\* an I-Beam with the flange kept at its minimum thickness at every height
SynthIBeamThinFlange(required_Z) ==
    LET height0 == Max2[160, CeilSqrt[QDiv[required_Z, QOf[20]]]]
        width0  == Max2[82, CeilDiv[height0, 2]]
        web0    == Max2[5, CeilDiv[height0, 40]]
    IN  IBeamSection[CeilDiv[height0, 10] * 10, CeilDiv[width0, 5] * 5,
                     Max2[5, web0], 7]

\* the I-Beam branch: dimensions from required_Z, rounded to increments
SynthIBeam(required_Z) ==
    LET height0 == Max2[160, CeilSqrt[QDiv[required_Z, QOf[20]]]]
        width0  == Max2[82, CeilDiv[height0, 2]]
        web0    == Max2[5, CeilDiv[height0, 40]]
        flange0 == Max2[7, CeilDiv[height0, 25]]
    IN  IBeamSection[CeilDiv[height0, 10] * 10,
                     CeilDiv[width0, 5] * 5,
                     Max2[5, CeilDiv[web0, 1] * 1],
                     Max2[7, CeilDiv[flange0, 1] * 1]]

\* the Channel section properties of the rounded dimensions (mm)
ChannelSection[height \in Nat, width \in Nat, web_thickness \in Nat, flange_thickness \in Nat] ==
    LET h  == QOf[height]
        b  == QOf[width]
        tw == QOf[web_thickness]
        tf == QOf[flange_thickness]
        hw == QOf[height - 2 * flange_thickness]
        area == QAdd[QMul[QMul[QOf[2], b], tf], QMul[tw, hw]]
        Ix == QAdd[QDiv[QMul[tw, QPow[h, 3]], QOf[12]],
                   QMul[QOf[2],
                        QAdd[QDiv[QMul[b, QPow[tf, 3]], QOf[12]],
                             QMul[QMul[b, tf],
                                  QPow[QSub[QDiv[h, QOf[2]], QDiv[tf, QOf[2]]], 2]]]]]
        Zx == QDiv[Ix, QDiv[h, QOf[2]]]
        Iy == QAdd[QDiv[QMul[h, QPow[tw, 3]], QOf[12]],
                   QMul[QOf[2], QDiv[QMul[tf, QPow[b, 3]], QOf[12]]]]
        J  == QMul[QFrac[1, 3],
                   QAdd[QMul[QPow[tw, 3], h],
                        QMul[QMul[QOf[2], b], QPow[tf, 3]]]]
        Cw == QDiv[QMul[Iy, QPow[QSub[h, tf], 2]], QOf[4]]
    IN  [name |-> <<"C", height, width, web_thickness, flange_thickness>>,
         type |-> "Channel",
         height |-> h, width |-> b,
         web_thickness |-> tw, flange_thickness |-> tf,
         area |-> area, Ix |-> Ix, Iy |-> Iy, Zx |-> Zx, J |-> J, Cw |-> Cw]

\* the Channel branch with the dimensions rounded to the increment below
SynthChannelRoundedDown(required_Z) ==
    LET height0 == Max2[100, CeilSqrt[QDiv[required_Z, QOf[8]]]]
        width0  == Max2[50, CeilDiv[height0, 3]]
        web0    == Max2[4, CeilDiv[height0, 50]]
        flange0 == Max2[5, CeilDiv[height0, 30]]
    IN  ChannelSection[(height0 \div 10) * 10,
                       (width0 \div 5) * 5,
                       Max2[4, web0],
                       Max2[5, flange0]]

\* the Channel branch with a section dict that carries no J and no Cw
SynthChannelWithoutTorsion(required_Z) ==
    LET height0 == Max2[100, CeilSqrt[QDiv[required_Z, QOf[8]]]]
        width0  == Max2[50, CeilDiv[height0, 3]]
        web0    == Max2[4, CeilDiv[height0, 50]]
        flange0 == Max2[5, CeilDiv[height0, 30]]
        sec     == ChannelSection[CeilDiv[height0, 10] * 10, CeilDiv[width0, 5] * 5,
                                  Max2[4, web0], Max2[5, flange0]]
    IN  [k \in DOMAIN sec \ {"J", "Cw"} |-> sec[k]]

\* the Channel branch
SynthChannel(required_Z) ==
    LET height0 == Max2[100, CeilSqrt[QDiv[required_Z, QOf[8]]]]
        width0  == Max2[50, CeilDiv[height0, 3]]
        web0    == Max2[4, CeilDiv[height0, 50]]
        flange0 == Max2[5, CeilDiv[height0, 30]]
    IN  ChannelSection[CeilDiv[height0, 10] * 10,
                       CeilDiv[width0, 5] * 5,
                       Max2[4, CeilDiv[web0, 1] * 1],
                       Max2[5, CeilDiv[flange0, 1] * 1]]

\* the deflection computed inline by select_optimal_section
SelectDeflection(moment, span, load_type, Ix) ==
    LET span_mm == QMul[span, QOf[1000]]
    IN  IF load_type = "uniform"
        THEN LET w      == QDiv[QMul[QOf[8], moment], QPow[span, 2]]
                 w_n_mm == QDiv[w, QOf[1000000]]
             IN  QDiv[QMul[QMul[QOf[5], w_n_mm], QPow[span_mm, 4]],
                      QMul[QMul[QOf[384], E_Q], Ix]]
        ELSE LET p   == QDiv[QMul[QOf[4], moment], span]
                 p_n == QMul[p, QOf[1000]]
             IN  QDiv[QMul[p_n, QPow[span_mm, 3]],
                      QMul[QMul[QOf[48], E_Q], Ix]]

\* OverallStatus with the deflection check left out of the gate
OverallStatusIgnoringDeflection(capacity_check, deflection_check, ltb_check) ==
    IF /\ capacity_check.status = "Safe"
       /\ ltb_check.status = "Safe"
    THEN "Safe" ELSE "Unsafe"

\* overall_status from the three gating checks
OverallStatus(capacity_check, deflection_check, ltb_check) ==
    IF /\ capacity_check.status = "Safe"
       /\ deflection_check.status = "Safe"
       /\ ltb_check.status = "Safe"
    THEN "Safe" ELSE "Unsafe"

\* the returned dict; a check that raised ends the call with its exception
DesignResult(section_properties, required_Z, deflection, capacity_check, deflection_check, compactness_check, ltb_check) ==
    IF ~capacity_check.ok THEN capacity_check
    ELSE IF ~deflection_check.ok THEN deflection_check
    ELSE IF ~compactness_check.ok THEN compactness_check
    ELSE IF ~ltb_check.ok THEN ltb_check
    ELSE Ok([section_properties |-> section_properties,
             required_section_modulus |-> required_Z,
             provided_section_modulus |-> section_properties.Zx,
             deflection |-> deflection,
             capacity_check |-> capacity_check.val,
             deflection_check |-> deflection_check.val,
             compactness_check |-> compactness_check.val,
             ltb_check |-> ltb_check.val,
             overall_status |-> OverallStatus(capacity_check.val,
                                              deflection_check.val,
                                              ltb_check.val)])

\* select_optimal_section with every section type other than "I-Beam" sized
\* as a Channel, none refused
SelectSizesAnyType(moment, span, load_type, steel_grade, code, section_type) ==
    LET fy == IF UnknownGrade(steel_grade) THEN 250
              ELSE STEEL_YIELD_STRENGTH[steel_grade]
        required_Z == QDiv[QMul[QMul[moment, QOf[1000000]], SafetyFactor(code)],
                           QOf[fy]]
        Checks(sec) ==
            TheOnly({DesignResult(sec, required_Z, deflection,
                                  check_section_capacity(moment, sec.Zx, steel_grade,
                                                         code),
                                  check_deflection(span, deflection,
                                                   IF load_type = "uniform"
                                                   THEN "floor" ELSE "roof",
                                                   TRUE),
                                  check_compactness(sec, steel_grade, code),
                                  check_lateral_torsional_buckling(span, sec,
                                                                   steel_grade,
                                                                   moment, code)) :
                     deflection \in {SelectDeflection(moment, span, load_type,
                                                      sec.Ix)}})
    IN  TheOnly({Checks(sec) : sec \in {IF section_type = "I-Beam"
                                        THEN SynthIBeam(required_Z)
                                        ELSE SynthChannel(required_Z)}})

select_optimal_section(moment, span, load_type, steel_grade, code, section_type) ==
    LET fy == IF UnknownGrade(steel_grade) THEN 250
              ELSE STEEL_YIELD_STRENGTH[steel_grade]
        safety_factor == SafetyFactor(code)
        required_Z == QDiv[QMul[QMul[moment, QOf[1000000]], safety_factor], QOf[fy]]
        \* the run of the four checks on the synthesized section
        Checks(section_properties) ==
            LET Ix == section_properties.Ix
                Zx == section_properties.Zx
                deflection == SelectDeflection(moment, span, load_type, Ix)
            IN  TheOnly({DesignResult(section_properties, required_Z, deflection,
                                      c[1], c[2], c[3], c[4]) :
                    c \in {<<check_section_capacity(moment, Zx, steel_grade, code),
                              check_deflection(span, deflection,
                                               IF load_type = "uniform" THEN "floor"
                                               ELSE "roof",
                                               TRUE),
                              check_compactness(section_properties, steel_grade, code),
                              check_lateral_torsional_buckling(span, section_properties,
                                                               steel_grade, moment,
                                                               code)>>}})
    IN  IF section_type \notin {"I-Beam", "Channel"}
        THEN Raise("ValueError", "Unsupported section type")
        ELSE TheOnly({Checks(section_properties) :
                      section_properties \in {IF section_type = "I-Beam"
                                              THEN SynthIBeam(required_Z)
                                              ELSE SynthChannel(required_Z)}})

---------------------------------------------------------------------------
(* src/calculations.py: calculate_critical_moment *)

\* loads.get(k, 0)
LoadGet(loads, k) == IF k \in DOMAIN loads THEN loads[k] ELSE Q0

\* (combo * span**2) / 8 if combo > 0 else 0
ComboMoment(combo, span) ==
    IF QLt[Q0, combo] THEN QDiv[QMul[combo, QPow[span, 2]], QOf[8]] ELSE Q0

\* (loads.get("maintenance", 0) * span) / 4 if "maintenance" in loads else 0
PointMoment(loads, span) ==
    IF "maintenance" \in DOMAIN loads
    THEN QDiv[QMul[LoadGet(loads, "maintenance"), span], QOf[4]]
    ELSE Q0

\* Max4 with the point-load moment left out
Max3(moment1, moment2, moment3, moment_point) ==
    QMax2[QMax2[moment1, moment2], moment3]

\* max(moment1, moment2, moment3, moment_point)
Max4(moment1, moment2, moment3, moment_point) ==
    QMax2[QMax2[QMax2[moment1, moment2], moment3], moment_point]

\* the if / elif chain that names the governing case
CriticalCase(critical_moment, moment1, moment2, moment3, moment_point) ==
    IF QEq[critical_moment, moment2] THEN "Dead + Wind (upward)"
    ELSE IF QEq[critical_moment, moment3] THEN "Dead + Live + Maintenance"
    ELSE IF QEq[critical_moment, moment_point] THEN "Maintenance (point load)"
    ELSE "Dead + Live"

calculate_critical_moment(loads, span) ==
    LET combo1 == QAdd[LoadGet(loads, "dead"), LoadGet(loads, "live")]
        combo2 == QSub[LoadGet(loads, "dead"), LoadGet(loads, "wind")]
        combo3 == QAdd[QAdd[LoadGet(loads, "dead"), LoadGet(loads, "live")],
                       LoadGet(loads, "maintenance")]
        moment1 == ComboMoment(combo1, span)
        moment2 == ComboMoment(combo2, span)
        moment3 == ComboMoment(combo3, span)
        moment_point == PointMoment(loads, span)
        critical_moment == Max4(moment1, moment2, moment3, moment_point)
    IN  Ok([critical_moment |-> critical_moment,
            critical_case |-> CriticalCase(critical_moment, moment1, moment2,
                                           moment3, moment_point),
            combinations |-> ("Dead + Live" :> moment1)
                             @@ ("Dead + Wind" :> moment2)
                             @@ ("Dead + Live + Maintenance" :> moment3)
                             @@ ("Maintenance (point load)" :> moment_point)])

---------------------------------------------------------------------------
(* The inputs the callers draw from. Lengths in m, loads in kN/m or kN,    *)
(* moments in kN.m, section properties in mm units.                        *)

MaxSpan == 8
MaxMoment == 8
MaxCapacityMoment == 50
MaxModulusSteps == 3
MaxDeflectionSteps == 16
MaxLoad == 3

Spans == 1..MaxSpan

\* the spans select_optimal_section is called with: the even ones
DesignSpans == {span \in Spans : span % 2 = 0}

\* design moments: every small one, and one that calls for a taller section
DesignMoments == (1..MaxMoment) \cup {100}

LoadTypes == {"uniform", "point_center", "triangular"}

Grades == {"St37", "S500", "XYZ99"}

\* the two design codes, each as the canonical lower-case string and capitalised
Codes == {"egyptian", "Egyptian", "american", "American"}

\* the codes select_optimal_section and the LTB check are called with: one
\* casing of each
DesignCodes == {"Egyptian", "american"}

SectionTypes == {"I-Beam", "Channel", "Angle"}

CapacityMoments == 1..MaxCapacityMoment

SectionModuli == {100000 * k : k \in 1..MaxModulusSteps}

\* deflections in mm, in steps of 5/3 mm
Deflections == {QFrac[5 * k, 3] : k \in 0..MaxDeflectionSteps}

LoadCategories == {"floor", "Floor", "roof"}

\* a dict without the keys in ks
Without(d, ks) == [k \in DOMAIN d \ ks |-> d[k]]

\* a dict with the keys in ks set to None
WithNone(d, ks) == [k \in DOMAIN d |-> IF k \in ks THEN None ELSE d[k]]

\* the sections handed to the checks: the two smallest synthesized ones
BaseSections == {SynthIBeam(Q0), SynthChannel(Q0)}

GeometryKeys == {"height", "width", "web_thickness", "flange_thickness"}

TorsionKeys == {"Iy", "J", "Cw"}

\* sections with a wide thin flange, or with a tall thin web
SlenderSections ==
    {IBeamSection[160, 200, 5, 7], IBeamSection[600, 85, 5, 7],
     ChannelSection[100, 150, 4, 5], ChannelSection[500, 50, 4, 5]}

CompactnessSections ==
    {Without(sec, ks) : sec \in BaseSections, ks \in SUBSET GeometryKeys}
    \cup {WithNone(sec, {k}) : sec \in BaseSections, k \in GeometryKeys}
    \cup SlenderSections

LtbSections ==
    {Without(sec, ks) : sec \in BaseSections, ks \in SUBSET TorsionKeys}
    \cup {WithNone(sec, {k}) : sec \in BaseSections, k \in TorsionKeys}

\* uniform loads in kN/m (point loads in kN)
Loads == 1..MaxLoad

Moduli == {STEEL_MODULUS_OF_ELASTICITY, 70000}

Inertias == {None, SynthIBeam(Q0).Ix, SynthChannel(Q0).Ix}

\* unit strings: the six supported units in several casings, and two others
Units == {"kn", "kN", "kg", "KG", "n", "kn/m", "Kg/m", "N/m", "lb"}

\* load components: a unit and a value, upward (negative) or downward
Components ==
    {[value |-> QOf[v], unit |-> u] : v \in {-2, 1}, u \in Units}

MaxComponents == 2

\* lists of at most MaxComponents load components
ComponentLists ==
    UNION {[1..n -> Components] : n \in 0..MaxComponents}

\* purlin loads: dead and live act downwards, wind and maintenance are
\* optional and signed
OptionalLoads == {None} \cup {QOf[v] : v \in -1..MaxLoad + 1}

PurlinLoads ==
    {Without([dead |-> QOf[d], live |-> QOf[l], wind |-> w, maintenance |-> m],
             {k \in {"wind", "maintenance"} :
                 (k = "wind" /\ w = None) \/ (k = "maintenance" /\ m = None)}) :
        d \in 0..MaxLoad, l \in 0..MaxLoad, w \in OptionalLoads, m \in OptionalLoads}

---------------------------------------------------------------------------
(* The caller: idle, or holding the outcome of one engine call.            *)

\* the module-level objects of src/constants.py that the engine imports
ModuleGlobals ==
    [STEEL_YIELD_STRENGTH |-> STEEL_YIELD_STRENGTH,
     SAFETY_FACTOR_EGYPTIAN |-> SAFETY_FACTOR_EGYPTIAN,
     SAFETY_FACTOR_AMERICAN |-> SAFETY_FACTOR_AMERICAN]

\* the threads that may call the engine at the same time
Threads == {"t1", "t2"}

\* a thread that is not in a call
Idle == [pc |-> "idle"]

Init ==
    /\ op = "idle"
    /\ args = <<>>
    /\ result = <<>>
    /\ globals = ModuleGlobals
    /\ threads = [t \in Threads |-> Idle]

\* the call returns (or raises) at once: the caller holds the outcome
Outcome(name, a, r) ==
    /\ op' = name
    /\ args' = a
    /\ result' = r
    /\ UNCHANGED <<globals, threads>>

CallSelectOptimalSection ==
    /\ op = "idle"
    /\ \E section_type \in SectionTypes, steel_grade \in Grades,
       load_type \in LoadTypes, code \in DesignCodes, moment \in DesignMoments,
       span \in DesignSpans :
        Outcome("select_optimal_section",
             [moment |-> moment, span |-> span, load_type |-> load_type,
              steel_grade |-> steel_grade, code |-> code,
              section_type |-> section_type],
             select_optimal_section(QOf[moment], QOf[span], load_type,
                                    steel_grade, code, section_type))

CallCheckSectionCapacity ==
    /\ op = "idle"
    /\ \E moment \in CapacityMoments, section_modulus \in SectionModuli,
       steel_grade \in Grades, code \in Codes :
        Outcome("check_section_capacity",
             [moment |-> moment, section_modulus |-> section_modulus,
              steel_grade |-> steel_grade, code |-> code],
             check_section_capacity(QOf[moment], QOf[section_modulus],
                                    steel_grade, code))

CallCheckDeflection ==
    /\ op = "idle"
    /\ \E span \in Spans, deflection \in Deflections,
       load_type \in LoadCategories, is_accessible \in BOOLEAN :
        Outcome("check_deflection",
             [span |-> span, deflection |-> deflection, load_type |-> load_type,
              is_accessible |-> is_accessible],
             check_deflection(QOf[span], deflection, load_type, is_accessible))

CallCheckCompactness ==
    /\ op = "idle"
    /\ \E section_properties \in CompactnessSections, steel_grade \in Grades,
       code \in Codes :
        Outcome("check_compactness",
             [section_properties |-> section_properties,
              steel_grade |-> steel_grade, code |-> code],
             check_compactness(section_properties, steel_grade, code))

CallCheckLateralTorsionalBuckling ==
    /\ op = "idle"
    /\ \E span \in Spans, section_properties \in LtbSections, steel_grade \in Grades,
       moment \in DesignMoments, code \in DesignCodes :
        Outcome("check_lateral_torsional_buckling",
             [span |-> span, section_properties |-> section_properties,
              steel_grade |-> steel_grade, moment |-> moment, code |-> code],
             check_lateral_torsional_buckling(QOf[span], section_properties,
                                              steel_grade, QOf[moment], code))

CallCalculateTotalLoad ==
    /\ op = "idle"
    /\ \E loads \in ComponentLists :
        Outcome("calculate_total_load", [loads |-> loads],
                calculate_total_load(loads))

CallCalculateMoment ==
    /\ op = "idle"
    /\ \E span \in Spans, total_load \in Loads, load_type \in LoadTypes :
        Outcome("calculate_moment",
             [span |-> span, total_load |-> total_load, load_type |-> load_type],
             calculate_moment(QOf[span], QOf[total_load], load_type))

CallCalculateShearForce ==
    /\ op = "idle"
    /\ \E span \in Spans, total_load \in Loads, load_type \in LoadTypes :
        Outcome("calculate_shear_force",
             [span |-> span, total_load |-> total_load, load_type |-> load_type],
             calculate_shear_force(QOf[span], QOf[total_load], load_type))

\* the caller derives the moment from the load (as a point load at midspan
\* if load_type says so, as a uniform load otherwise), then asks for the
\* deflection
CallCalculateDeflection ==
    /\ op = "idle"
    /\ \E span \in Spans, total_load \in Loads, modulus \in Moduli,
       inertia \in Inertias, load_type \in LoadTypes :
        LET moment == calculate_moment(QOf[span], QOf[total_load],
                                       IF load_type = "point_center"
                                       THEN "point_center" ELSE "uniform").val
        IN  Outcome("calculate_deflection",
                 [span |-> span, total_load |-> total_load, moment |-> moment,
                  modulus |-> modulus, inertia |-> inertia, load_type |-> load_type],
                 calculate_deflection(QOf[span], moment, QOf[modulus], inertia,
                                      load_type))

CallCalculateCriticalMoment ==
    /\ op = "idle"
    /\ \E loads \in PurlinLoads, span \in Spans :
        Outcome("calculate_critical_moment",
             [loads |-> loads, span |-> span],
             calculate_critical_moment(loads, QOf[span]))

\* the caller consumes the outcome; the engine keeps nothing
Return ==
    /\ op # "idle"
    /\ op' = "idle"
    /\ args' = <<>>
    /\ result' = <<>>
    /\ UNCHANGED <<globals, threads>>

Next ==
    \/ CallCheckSectionCapacity
    \/ CallCheckDeflection
    \/ CallCheckCompactness
    \/ CallCheckLateralTorsionalBuckling
    \/ CallCalculateTotalLoad
    \/ CallCalculateMoment
    \/ CallCalculateShearForce
    \/ CallCalculateDeflection
    \/ CallCalculateCriticalMoment
    \/ CallSelectOptimalSection
    \/ Return

Spec == Init /\ [][Next]_vars


---------------------------------------------------------------------------
(* Concurrent callers. Each thread runs one engine operation; every read   *)
(* of a module-level object is a step of its own, so the reads of two      *)
(* calls interleave in every order. What a thread computes, it computes    *)
(* from its arguments and from what it has read.                           *)

\* the dict after d.get(k) with the default 250 recorded in it (d.setdefault)
AfterSetDefault(d, k) == IF k \in DOMAIN d THEN d ELSE d @@ (k :> 250)

\* the dict after d.get(k): get leaves the dict as it is
AfterGet(d, k) == d

\* STEEL_YIELD_STRENGTH.get(steel_grade) is not None
Listed(g, steel_grade) == steel_grade \in DOMAIN g.STEEL_YIELD_STRENGTH

\* SAFETY_FACTOR_EGYPTIAN if code.lower() == "egyptian" else
\* SAFETY_FACTOR_AMERICAN, read from the module-level names
FactorRead(g, code) ==
    IF Lower(code) = "egyptian" THEN g.SAFETY_FACTOR_EGYPTIAN
    ELSE g.SAFETY_FACTOR_AMERICAN

\* check_section_capacity once fy and the safety factor are read
CapacityWith(fy, safety_factor, moment, section_modulus) ==
    LET moment_nmm      == QMul[moment, QOf[1000000]]
        moment_capacity == QDiv[QMul[QOf[fy], section_modulus], safety_factor]
        utilization     == QDiv[moment_nmm, moment_capacity]
    IN  Ok([status |-> StatusOf(utilization),
            utilization |-> utilization,
            moment_capacity |-> QDiv[moment_capacity, QOf[1000000]],
            safety_factor |-> safety_factor])

\* check_compactness once fy is read, on a section that has its geometry
CompactnessWith(fy, section_properties, code) ==
    Ok(TheOnly({CompactnessOf(QDiv[QDiv[section_properties.width, QOf[2]],
                                   section_properties.flange_thickness],
                              QDiv[QSub[section_properties.height,
                                        QMul[QOf[2],
                                             section_properties.flange_thickness]],
                                   section_properties.web_thickness],
                              root, code) :
                root \in {QSqrt[QDiv[E_Q, QOf[fy]]]}}))

\* the LTB verdict once Mcr (kN.m) is known and the safety factor is read
LtbVerdictWith(Mcr, moment, safety_factor) ==
    [status |-> StatusOf(QDiv[moment, QDiv[Mcr, safety_factor]]),
     utilization |-> QDiv[moment, QDiv[Mcr, safety_factor]],
     critical_moment |-> Mcr,
     design_capacity |-> QDiv[Mcr, safety_factor]]

\* check_lateral_torsional_buckling once the safety factor is read, on a
\* section that has Iy, J and Cw
LtbWith(safety_factor, span, section_properties, moment) ==
    LET Lb      == QMul[span, QOf[1000]]
        G       == QDiv[E_Q, QMul[QOf[2], QAdd[Q1, QFrac[3, 10]]]]
        Mcr_nmm == QMul[QDiv[NpPi, Lb],
                        QSqrt[QMul[QMul[QMul[E_Q, section_properties.Iy], G],
                                   section_properties.J]]]
    IN  Ok(TheOnly({LtbVerdictWith(Mcr, moment, safety_factor) :
                    Mcr \in {QDiv[Mcr_nmm, QOf[1000000]]}}))

\* the calls the threads make
CapacityCalls ==
    {[name |-> "check_section_capacity",
      args |-> [moment |-> moment, section_modulus |-> 300000,
                steel_grade |-> steel_grade, code |-> code]] :
        moment \in {48, 50}, steel_grade \in {"St37", "XYZ99"}, code \in DesignCodes}

SelectCalls ==
    {[name |-> "select_optimal_section",
      args |-> [moment |-> 7, span |-> 8, load_type |-> load_type,
                steel_grade |-> steel_grade, code |-> "Egyptian",
                section_type |-> section_type]] :
        load_type \in {"uniform", "point_center"}, steel_grade \in {"St37", "XYZ99"},
        section_type \in {"I-Beam", "Angle"}}

ThreadCalls == CapacityCalls \cup SelectCalls

\* thread t moves on: to pc, with the locals given in loc added to its own
Goto(t, pc, loc) ==
    threads' = [threads EXCEPT ![t] = [@ EXCEPT !.pc = pc, !.loc = loc @@ @]]

\* thread t ends its call with the outcome r
Done(t, r) ==
    threads' = [threads EXCEPT ![t] = [pc |-> "done", name |-> @.name,
                                       args |-> @.args, result |-> r]]

\* the yield-strength dict is looked up; the dict is what the lookup leaves
LookUp(steel_grade) ==
    globals' = [globals EXCEPT !.STEEL_YIELD_STRENGTH = AfterGet(@, steel_grade)]

\* a thread calls an operation: it stands before the operation's first read
ThreadCall(t) ==
    /\ threads[t].pc = "idle"
    /\ \E call \in ThreadCalls :
        threads' = [threads EXCEPT ![t] =
                        [pc |-> IF call.name = "select_optimal_section"
                                THEN "select_fy" ELSE "capacity_fy",
                         name |-> call.name, args |-> call.args,
                         loc |-> <<>>]]
    /\ UNCHANGED <<op, args, result, globals>>

\* select_optimal_section: fy = STEEL_YIELD_STRENGTH.get(steel_grade, 250)
SelectReadGrade(t) ==
    /\ threads[t].pc = "select_fy"
    /\ LookUp(threads[t].args.steel_grade)
    /\ Goto(t, "select_sf",
            [fy |-> IF Listed(globals, threads[t].args.steel_grade)
                    THEN globals.STEEL_YIELD_STRENGTH[threads[t].args.steel_grade]
                    ELSE 250])
    /\ UNCHANGED <<op, args, result>>

\* what select_optimal_section holds once the section is sized
SelectSized(moment, span, load_type, safety_factor, required_Z, section_properties) ==
    [safety_factor |-> safety_factor,
     required_Z |-> required_Z,
     section_properties |-> section_properties,
     deflection |-> SelectDeflection(moment, span, load_type, section_properties.Ix)]

\* select_optimal_section: the safety factor is read, then the section is
\* sized and its deflection computed, or the section type is refused
SelectReadFactor(t) ==
    /\ threads[t].pc = "select_sf"
    /\ LET a  == threads[t].args
           sf == FactorRead(globals, a.code)
           required_Z == QDiv[QMul[QMul[QOf[a.moment], QOf[1000000]], sf],
                              QOf[threads[t].loc.fy]]
       IN  IF a.section_type \notin {"I-Beam", "Channel"}
           THEN Done(t, Raise("ValueError", "Unsupported section type"))
           ELSE Goto(t, "capacity_fy",
                     TheOnly({SelectSized(QOf[a.moment], QOf[a.span], a.load_type,
                                          sf, required_Z, section_properties) :
                              section_properties \in
                                  {IF a.section_type = "I-Beam"
                                   THEN SynthIBeam(required_Z)
                                   ELSE SynthChannel(required_Z)}}))
    /\ UNCHANGED <<op, args, result, globals>>

\* check_section_capacity: fy = STEEL_YIELD_STRENGTH.get(steel_grade)
CapacityReadGrade(t) ==
    /\ threads[t].pc = "capacity_fy"
    /\ LookUp(threads[t].args.steel_grade)
    /\ IF Listed(globals, threads[t].args.steel_grade)
       THEN Goto(t, "capacity_sf",
                 [fy_capacity |->
                      globals.STEEL_YIELD_STRENGTH[threads[t].args.steel_grade]])
       ELSE Done(t, Raise("ValueError", "Unknown steel grade"))
    /\ UNCHANGED <<op, args, result>>

\* check_section_capacity: the safety factor is read and the check returns;
\* within select_optimal_section the deflection check follows at once
CapacityReadFactor(t) ==
    /\ threads[t].pc = "capacity_sf"
    /\ LET a   == threads[t].args
           loc == threads[t].loc
       IN  IF threads[t].name = "check_section_capacity"
           THEN Done(t, CapacityWith(loc.fy_capacity, FactorRead(globals, a.code),
                                     QOf[a.moment], QOf[a.section_modulus]))
           ELSE Goto(t, "compactness_fy",
                     [capacity_check |->
                          CapacityWith(loc.fy_capacity, FactorRead(globals, a.code),
                                       QOf[a.moment], loc.section_properties.Zx),
                      deflection_check |->
                          check_deflection(QOf[a.span], loc.deflection,
                                           IF a.load_type = "uniform" THEN "floor"
                                           ELSE "roof",
                                           TRUE)])
    /\ UNCHANGED <<op, args, result, globals>>

\* check_compactness: fy = STEEL_YIELD_STRENGTH.get(steel_grade), then the
\* classification
CompactnessReadGrade(t) ==
    /\ threads[t].pc = "compactness_fy"
    /\ LookUp(threads[t].args.steel_grade)
    /\ IF Listed(globals, threads[t].args.steel_grade)
       THEN Goto(t, "ltb_fy",
                 [compactness_check |->
                      CompactnessWith(
                          globals.STEEL_YIELD_STRENGTH[threads[t].args.steel_grade],
                          threads[t].loc.section_properties, threads[t].args.code)])
       ELSE Done(t, Raise("ValueError", "Unknown steel grade"))
    /\ UNCHANGED <<op, args, result>>

\* check_lateral_torsional_buckling: fy = STEEL_YIELD_STRENGTH.get(steel_grade)
LtbReadGrade(t) ==
    /\ threads[t].pc = "ltb_fy"
    /\ LookUp(threads[t].args.steel_grade)
    /\ IF Listed(globals, threads[t].args.steel_grade)
       THEN Goto(t, "ltb_sf", <<>>)
       ELSE Done(t, Raise("ValueError", "Unknown steel grade"))
    /\ UNCHANGED <<op, args, result>>

\* select_optimal_section with a re-sizing loop: a design that is not Safe
\* goes back to the sizing of the section
LtbReadFactorResizing(t) ==
    /\ threads[t].pc = "ltb_sf"
    /\ LET a   == threads[t].args
           loc == threads[t].loc
           design == DesignResult(loc.section_properties, loc.required_Z,
                                  loc.deflection, loc.capacity_check,
                                  loc.deflection_check, loc.compactness_check,
                                  LtbWith(FactorRead(globals, a.code), QOf[a.span],
                                          loc.section_properties, QOf[a.moment]))
       IN  IF design.ok /\ design.val.overall_status # "Safe"
           THEN Goto(t, "select_sf", <<>>)
           ELSE Done(t, design)
    /\ UNCHANGED <<op, args, result, globals>>

\* check_lateral_torsional_buckling: the safety factor is read and the check
\* returns; select_optimal_section builds its result and returns
LtbReadFactor(t) ==
    /\ threads[t].pc = "ltb_sf"
    /\ LET a   == threads[t].args
           loc == threads[t].loc
       IN  Done(t, DesignResult(loc.section_properties, loc.required_Z,
                                loc.deflection, loc.capacity_check,
                                loc.deflection_check, loc.compactness_check,
                                LtbWith(FactorRead(globals, a.code), QOf[a.span],
                                        loc.section_properties, QOf[a.moment])))
    /\ UNCHANGED <<op, args, result, globals>>

\* the caller takes the outcome; the thread is free for its next call
ThreadReturn(t) ==
    /\ threads[t].pc = "done"
    /\ threads' = [threads EXCEPT ![t] = Idle]
    /\ UNCHANGED <<op, args, result, globals>>

ConcNext ==
    \E t \in Threads :
        \/ ThreadCall(t)
        \/ SelectReadGrade(t)
        \/ SelectReadFactor(t)
        \/ CapacityReadGrade(t)
        \/ CapacityReadFactor(t)
        \/ CompactnessReadGrade(t)
        \/ LtbReadGrade(t)
        \/ LtbReadFactor(t)
        \/ ThreadReturn(t)

ConcSpec == Init /\ [][ConcNext]_vars

\* the steps of a call that is under way: everything but the call itself
ThreadRun(t) ==
    \/ SelectReadGrade(t)
    \/ SelectReadFactor(t)
    \/ CapacityReadGrade(t)
    \/ CapacityReadFactor(t)
    \/ CompactnessReadGrade(t)
    \/ LtbReadGrade(t)
    \/ LtbReadFactor(t)
    \/ ThreadReturn(t)

\* every thread is scheduled: a call that is under way takes its next step
FairConcSpec == ConcSpec /\ \A t \in Threads : WF_vars(ThreadRun(t))

---------------------------------------------------------------------------
(* The sizing of sections: select_optimal_section called for every grade   *)
(* of the table, both codes and both section types, over a range of        *)
(* moments that takes the heights from their minimum to several hundred    *)
(* millimetres.                                                            *)

MaxSizingMoment == 24

\* the moments (kN.m) of the sizing calls: 1, 4, 9, ...
SizingMoments == {m * m : m \in 1..MaxSizingMoment}

CallSelectEveryGrade ==
    /\ op = "idle"
    /\ \E section_type \in {"I-Beam", "Channel"},
       steel_grade \in DOMAIN STEEL_YIELD_STRENGTH,
       code \in DesignCodes, moment \in SizingMoments :
        Outcome("select_optimal_section",
             [moment |-> moment, span |-> MaxSpan, load_type |-> "uniform",
              steel_grade |-> steel_grade, code |-> code,
              section_type |-> section_type],
             select_optimal_section(QOf[moment], QOf[MaxSpan], "uniform",
                                    steel_grade, code, section_type))

SizingNext ==
    \/ CallSelectEveryGrade
    \/ Return

SizingSpec == Init /\ [][SizingNext]_vars
---------------------------------------------------------------------------
(* Properties of the engine, each stated on the outcome the caller holds.  *)

\* u <= 1 for a rational u, from its sign, numerator and denominator
AtMostOne(u) == u.s = -1 \/ BCmp[u.n, u.d] <= 0

\* the status of a check result follows its utilization
StatusFollowsUtilization(check) ==
    check.status = IF AtMostOne(check.utilization) THEN "Safe" ELSE "Unsafe"

\* k is absent from the dict d, or None in it
Missing(d, k) == k \notin DOMAIN d \/ d[k] = None

KnownGrade(steel_grade) == steel_grade \in DOMAIN STEEL_YIELD_STRENGTH

\* C1: in every DesignResult returned by select_optimal_section,
\* overall_status is Safe if and only if capacity_check, deflection_check and
\* ltb_check are all Safe; overall_status is a function of these three
\* statuses alone, so the compactness classification never changes it.
C1_OverallStatusGate ==
    (op = "select_optimal_section" /\ result.ok) =>
        /\ result.val.overall_status \in {"Safe", "Unsafe"}
        /\ result.val.overall_status = "Safe"
           <=> /\ result.val.capacity_check.status = "Safe"
               /\ result.val.deflection_check.status = "Safe"
               /\ result.val.ltb_check.status = "Safe"

\* a design that only the deflection check fails: 7 kN.m on an 8 m span
C1_DeflectionAloneFails ==
    /\ op = "select_optimal_section"
    /\ result.ok
    /\ result.val.capacity_check.status = "Safe"
    /\ result.val.ltb_check.status = "Safe"
    /\ result.val.deflection_check.status = "Unsafe"
    /\ result.val.compactness_check.classification = "Compact"
    /\ result.val.overall_status = "Unsafe"

\* C2: for every result of the capacity check, the deflection check, and the
\* LTB check when Iy, J and Cw are all present (called directly or by
\* select_optimal_section), status is Safe if and only if utilization <= 1.0,
\* exactly 1.0 included, and Unsafe otherwise.
C2_StatusIffUtilization ==
    /\ (op \in {"check_section_capacity", "check_deflection"} /\ result.ok)
        => StatusFollowsUtilization(result.val)
    /\ (/\ op = "check_lateral_torsional_buckling"
        /\ result.ok
        /\ \A k \in TorsionKeys : ~Missing(args.section_properties, k))
        => StatusFollowsUtilization(result.val)
    /\ (op = "select_optimal_section" /\ result.ok)
        => /\ StatusFollowsUtilization(result.val.capacity_check)
           /\ StatusFollowsUtilization(result.val.deflection_check)
           /\ StatusFollowsUtilization(result.val.ltb_check)

\* a capacity check whose utilization is exactly 1.0, reported Safe
C2_UtilizationExactlyOne ==
    /\ op = "check_section_capacity"
    /\ result.ok
    /\ BCmp[result.val.utilization.n, result.val.utilization.d] = 0
    /\ result.val.status = "Safe"

\* C3: check_section_capacity returns capacity = fy * Zx / safety_factor(code)
\* (reported in kN.m) and utilization = M * 10^6 / capacity; with Zx, grade
\* and code fixed, the next larger M gives a strictly larger utilization (so,
\* step by step, does every larger M); M = 50, Zx = 300000, St37, Egyptian
\* gives capacity 48, utilization 50/48 and status Unsafe.
C3_CapacityFormula ==
    (op = "check_section_capacity" /\ result.ok) =>
        LET M  == args.moment
            Zx == args.section_modulus
            fy == STEEL_YIELD_STRENGTH[args.steel_grade]
            sf == IF args.code \in {"Egyptian", "egyptian"} THEN QFrac[3, 2]
                  ELSE QFrac[167, 100]
            capacity == QDiv[QOf[fy * Zx], sf]
        IN  /\ QEq[QMul[result.val.moment_capacity, QOf[1000000]], capacity]
            /\ QEq[result.val.utilization, QDiv[QOf[M * 1000000], capacity]]
            /\ QLt[result.val.utilization,
                   check_section_capacity(QOf[M + 1], QOf[Zx], args.steel_grade,
                                          args.code).val.utilization]
            /\ (/\ M = 50
                /\ Zx = 300000
                /\ args.steel_grade = "St37"
                /\ args.code = "Egyptian")
                => /\ QEq[result.val.moment_capacity, QOf[48]]
                   /\ QEq[result.val.utilization, QFrac[50, 48]]
                   /\ result.val.status = "Unsafe"

\* the scenario: M = 50 kN.m, Zx = 300000 mm3, St37, Egyptian
C3_ScenarioChecked ==
    /\ op = "check_section_capacity"
    /\ args.moment = 50
    /\ args.section_modulus = 300000
    /\ args.steel_grade = "St37"
    /\ args.code = "Egyptian"
    /\ result.ok
    /\ result.val.status = "Unsafe"

\* C4: deflection round trip, uniform case: with M = w * span^2 / 8,
\* calculate_deflection(span, M, E, I, "uniform") returns
\* 5 * w * L^4 / (384 * E * I) in mm, w in N/mm (1 kN/m = 1 N/mm), L in mm.
C4_UniformDeflectionRoundTrip ==
    (/\ op = "calculate_deflection"
     /\ args.load_type = "uniform"
     /\ args.inertia # None
     /\ result.ok)
        => QEq[result.val,
               QDiv[QMul[QOf[5 * args.total_load], QPow[QOf[args.span * 1000], 4]],
                    QMul[QOf[384], QMul[QOf[args.modulus], args.inertia]]]]

\* C5: the provided_section_modulus of every synthesized section is not
\* smaller than the required_section_modulus it was sized for.
C5_ProvidedAtLeastRequired ==
    (op = "select_optimal_section" /\ result.ok) =>
        QLe[result.val.required_section_modulus, result.val.provided_section_modulus]

\* C6: calculate_critical_moment breaks ties in evaluation order: critical_case
\* names the first of Dead+Live, Dead+Wind, Dead+Live+Maintenance,
\* Maintenance-point whose moment equals the maximum.
C6_FirstMatchWins ==
    (op = "calculate_critical_moment" /\ result.ok) =>
        LET c == result.val.combinations
            m == result.val.critical_moment
        IN  result.val.critical_case =
                IF QEq[c["Dead + Live"], m] THEN "Dead + Live"
                ELSE IF QEq[c["Dead + Wind"], m] THEN "Dead + Wind (upward)"
                ELSE IF QEq[c["Dead + Live + Maintenance"], m]
                THEN "Dead + Live + Maintenance"
                ELSE "Maintenance (point load)"

\* a load of the call's loads dict, 0 when absent
ArgLoad(k) == IF k \in DOMAIN args.loads THEN args.loads[k] ELSE Q0

\* w * L^2 / 8 for the span of the call
UniformMoment(w) == QDiv[QMul[w, QOf[args.span * args.span]], QOf[8]]

\* C7: critical_moment is the maximum of the four combination moments; a
\* distributed combination with net load w > 0 has moment w * L^2 / 8, the
\* maintenance point load P has P * L / 4; for dead = 2, live = 3, wind = 4,
\* maintenance = 1, span = 5 the moments are 15.625, 0, 18.75 and 1.25,
\* critical_moment is 18.75 and critical_case "Dead + Live + Maintenance".
C7_CriticalMomentIsMax ==
    (op = "calculate_critical_moment" /\ result.ok) =>
        LET c  == result.val.combinations
            m  == result.val.critical_moment
            w1 == QAdd[ArgLoad("dead"), ArgLoad("live")]
            w2 == QSub[ArgLoad("dead"), ArgLoad("wind")]
            w3 == QAdd[w1, ArgLoad("maintenance")]
        IN  /\ DOMAIN c = {"Dead + Live", "Dead + Wind", "Dead + Live + Maintenance",
                           "Maintenance (point load)"}
            /\ \A k \in DOMAIN c : QLe[c[k], m]
            /\ \E k \in DOMAIN c : QEq[c[k], m]
            /\ QLt[Q0, w1] => QEq[c["Dead + Live"], UniformMoment(w1)]
            /\ QLt[Q0, w2] => QEq[c["Dead + Wind"], UniformMoment(w2)]
            /\ QLt[Q0, w3] => QEq[c["Dead + Live + Maintenance"], UniformMoment(w3)]
            /\ QEq[c["Maintenance (point load)"],
                   QDiv[QMul[ArgLoad("maintenance"), QOf[args.span]], QOf[4]]]
            /\ (/\ args.loads = [dead |-> QOf[2], live |-> QOf[3], wind |-> QOf[4],
                                 maintenance |-> QOf[1]]
                /\ args.span = 5)
                => /\ QEq[c["Dead + Live"], QFrac[15625, 1000]]
                   /\ QEq[c["Dead + Wind"], Q0]
                   /\ QEq[c["Dead + Live + Maintenance"], QFrac[1875, 100]]
                   /\ QEq[c["Maintenance (point load)"], QFrac[125, 100]]
                   /\ QEq[m, QFrac[1875, 100]]
                   /\ result.val.critical_case = "Dead + Live + Maintenance"

\* the purlin scenario: dead = 2, live = 3, wind = 4, maintenance = 1, span = 5
C7_PurlinScenario ==
    /\ op = "calculate_critical_moment"
    /\ args.loads = [dead |-> QOf[2], live |-> QOf[3], wind |-> QOf[4],
                     maintenance |-> QOf[1]]
    /\ args.span = 5
    /\ result.ok
    /\ result.val.critical_case = "Dead + Live + Maintenance"

\* C8: each of the four reported combinations whose net load is <= 0
\* contributes a moment of exactly 0, so no entry of combinations and no
\* critical_moment is negative.
C8_NoNegativeMoment ==
    (op = "calculate_critical_moment" /\ result.ok) =>
        LET c == result.val.combinations
        IN  /\ \A k \in DOMAIN c : QLe[Q0, c[k]]
            /\ QLe[Q0, result.val.critical_moment]
            /\ QLe[ArgLoad("maintenance"), Q0]
                => QEq[c["Maintenance (point load)"], Q0]
            /\ QLe[QSub[ArgLoad("dead"), ArgLoad("wind")], Q0]
                => QEq[c["Dead + Wind"], Q0]

\* C9: the LTB check called with Iy, J or Cw absent (missing or None) and a
\* known steel grade raises nothing: it returns the Indeterminate status
\* ("Cannot determine - missing section properties"), utilization None and an
\* explanatory note.
C9_LtbIndeterminate ==
    (/\ op = "check_lateral_torsional_buckling"
     /\ KnownGrade(args.steel_grade)
     /\ \E k \in TorsionKeys : Missing(args.section_properties, k))
        => /\ result.ok
           /\ result.val.status = "Cannot determine - missing section properties"
           /\ result.val.utilization = None
           /\ "note" \in DOMAIN result.val
           /\ result.val.note # ""

\* the scenario: the LTB check called with Iy = None
C9_IyNone ==
    /\ op = "check_lateral_torsional_buckling"
    /\ KnownGrade(args.steel_grade)
    /\ "Iy" \in DOMAIN args.section_properties
    /\ args.section_properties.Iy = None
    /\ result.ok
    /\ result.val.utilization = None

\* C10: the compactness check called with a known steel grade and any one of
\* height, width, web_thickness, flange_thickness missing fails with the one
\* error for missing section properties (ValueError "Missing section
\* properties"), whichever property it is.
C10_MissingGeometryRaises ==
    (/\ op = "check_compactness"
     /\ KnownGrade(args.steel_grade)
     /\ \E k \in GeometryKeys : Missing(args.section_properties, k))
        => /\ ~result.ok
           /\ result.raised = "ValueError"
           /\ result.message = "Missing section properties"

---------------------------------------------------------------------------
(* Errors, limits, units and internal forces.                              *)

\* the keys of the yield-strength table, spelled out
TableGrades ==
    {"St37", "St44", "St52", "St60", "St70", "A36", "A572", "A992",
     "S235", "S275", "S355", "S450", "S500"}

\* the outcome the caller holds is the given exception
Raised(kind, msg) ==
    /\ ~result.ok
    /\ result.raised = kind
    /\ result.message = msg

\* C11: each of check_section_capacity, check_compactness and
\* check_lateral_torsional_buckling, called with a steel_grade that is not a
\* key of the yield-strength table, raises ValueError "Unknown steel grade"
\* and returns nothing, whatever the other arguments are.
C11_UnknownGradeRaises ==
    (/\ op \in {"check_section_capacity", "check_compactness",
                 "check_lateral_torsional_buckling"}
     /\ args.steel_grade \notin TableGrades)
        => Raised("ValueError", "Unknown steel grade")

\* grade "XYZ99" with a section that lacks its height: the grade error wins
C11_UnknownGradeBeforeGeometry ==
    /\ op = "check_compactness"
    /\ args.steel_grade = "XYZ99"
    /\ "height" \notin DOMAIN args.section_properties
    /\ Raised("ValueError", "Unknown steel grade")

C13_UnsupportedLoadTypeRaises ==
    (/\ op \in {"calculate_moment", "calculate_shear_force", "calculate_deflection"}
     /\ args.load_type \notin {"uniform", "point_center"})
        => Raised("ValueError", "Unsupported load type")

\* C14: select_optimal_section called with a load_type that is neither
\* "uniform" nor "point_center" (known grade, supported section type) raises
\* ValueError "Unsupported load type" and returns no DesignResult.
C14_SelectUnsupportedLoadTypeRaises ==
    (/\ op = "select_optimal_section"
     /\ args.load_type \notin {"uniform", "point_center"}
     /\ args.steel_grade \in TableGrades
     /\ args.section_type \in {"I-Beam", "Channel"})
        => Raised("ValueError", "Unsupported load type")

\* C15: select_optimal_section called with any section_type other than
\* "I-Beam" or "Channel" raises ValueError "Unsupported section type",
\* whatever the other inputs are (an unknown grade or load type included):
\* no check has run, since no check's error is what the caller gets, and no
\* DesignResult is returned.
C15_UnsupportedSectionTypeRaises ==
    (/\ op = "select_optimal_section"
     /\ args.section_type \notin {"I-Beam", "Channel"})
        => Raised("ValueError", "Unsupported section type")

\* an "Angle" asked for with the unknown grade "XYZ99" and load type
\* "triangular": the section type error is what the caller gets
C15_AngleUnknownGrade ==
    /\ op = "select_optimal_section"
    /\ args.section_type = "Angle"
    /\ args.steel_grade = "XYZ99"
    /\ args.load_type = "triangular"
    /\ Raised("ValueError", "Unsupported section type")

\* C16: check_deflection applies the limit span_mm / 360 when the load
\* category is "floor" in any casing or is_accessible is true, and
\* span_mm / 240 otherwise; utilization = deflection / limit, and limit_ratio
\* ("L/360" or "L/240") names the limit applied; span 6 m, deflection 10 mm,
\* category floor gives the limit 6000 / 360 and status Safe.
C16_DeflectionLimit ==
    (op = "check_deflection" /\ result.ok) =>
        LET floor == args.load_type \in {"floor", "Floor", "FLOOR"} \/ args.is_accessible
            limit == QFrac[args.span * 1000, IF floor THEN 360 ELSE 240]
        IN  /\ QEq[result.val.allowable_deflection, limit]
            /\ QEq[result.val.utilization, QDiv[args.deflection, limit]]
            /\ result.val.limit_ratio = IF floor THEN "L/360" ELSE "L/240"
            /\ (args.span = 6 /\ QEq[args.deflection, QOf[10]] /\ args.load_type = "floor")
                => /\ QEq[result.val.allowable_deflection, QFrac[6000, 360]]
                   /\ QEq[result.val.utilization, QFrac[6, 10]]
                   /\ result.val.status = "Safe"

\* category "Floor" on a beam that is not accessible: L/360 applies, so a
\* deflection that L/240 would allow is Unsafe
C16_CapitalFloorFails ==
    /\ op = "check_deflection"
    /\ args.load_type = "Floor"
    /\ ~args.is_accessible
    /\ result.ok
    /\ result.val.limit_ratio = "L/360"
    /\ result.val.status = "Unsafe"
    /\ QLe[args.deflection, QFrac[args.span * 1000, 240]]

\* the factor the design code stands for: 1.5 for "egyptian" and 1.67 for
\* "american", in any casing
FactorOf(code) ==
    CASE code \in {"egyptian", "Egyptian", "EGYPTIAN"} -> QFrac[15, 10]
      [] code \in {"american", "American", "AMERICAN"} -> QFrac[167, 100]

\* C17: the design code is matched case-insensitively and stands for one
\* factor: 1.5 for any casing of "egyptian", 1.67 for any casing of
\* "american"; the capacity check reports it as safety_factor, the LTB check
\* divides the critical moment by it, and within one select_optimal_section
\* call required_section_modulus = M * 10^6 * factor / fy, the capacity check
\* and the LTB check all use that same factor.
C17_OneFactorPerCode ==
    /\ (op = "check_section_capacity" /\ result.ok)
        => QEq[result.val.safety_factor, FactorOf(args.code)]
    /\ (/\ op = "check_lateral_torsional_buckling"
        /\ result.ok
        /\ result.val.utilization # None)
        => QEq[QMul[result.val.design_capacity, FactorOf(args.code)],
               result.val.critical_moment]
    /\ (op = "select_optimal_section" /\ result.ok)
        => /\ QEq[result.val.required_section_modulus,
                  QDiv[QMul[QOf[args.moment * 1000000], FactorOf(args.code)],
                       QOf[STEEL_YIELD_STRENGTH[args.steel_grade]]]]
           /\ QEq[result.val.capacity_check.safety_factor, FactorOf(args.code)]
           /\ QEq[QMul[result.val.ltb_check.design_capacity, FactorOf(args.code)],
                  result.val.ltb_check.critical_moment]

\* a design under code "Egyptian", capitalised: the factor reported is 1.5
C17_CapitalisedEgyptianDesign ==
    /\ op = "select_optimal_section"
    /\ args.code = "Egyptian"
    /\ result.ok
    /\ QEq[result.val.capacity_check.safety_factor, QFrac[3, 2]]

\* the factor to kN of a supported unit, in any casing
UnitFactor(unit) ==
    CASE unit \in {"kn", "kN", "KN", "kn/m", "kN/m", "KN/M"} -> Q1
      [] unit \in {"kg", "Kg", "KG", "kg/m", "Kg/m", "KG/M"} -> QFrac[981, 100000]
      [] unit \in {"n", "N", "n/m", "N/m", "N/M"} -> QFrac[1, 1000]

\* the unit is none of the six supported ones
OtherUnit(unit) ==
    unit \notin {"kn", "kN", "KN", "kn/m", "kN/m", "KN/M", "kg", "Kg", "KG", "kg/m",
                 "Kg/m", "KG/M", "n", "N", "n/m", "N/m", "N/M"}

\* C18: calculate_total_load returns the sum over all components of
\* value * factor, signs kept, with factor 1 for kn and kn/m, 0.00981 for kg
\* and kg/m, 1/1000 for n and n/m, units in any casing; if any component has
\* another unit the call raises ValueError "Unsupported unit" and returns no
\* total.
C18_TotalLoad ==
    op = "calculate_total_load" =>
        LET loads == args.loads
            Sum[i \in 0..Len(loads)] ==
                IF i = 0 THEN Q0
                ELSE QAdd[Sum[i - 1],
                          QMul[loads[i].value, UnitFactor(loads[i].unit)]]
        IN  IF \E i \in 1..Len(loads) : OtherUnit(loads[i].unit)
            THEN Raised("ValueError", "Unsupported unit")
            ELSE result.ok /\ QEq[result.val, Sum[Len(loads)]]

\* 1 KG and -2 N/m: 0.00981 - 0.002 = 0.00781 kN
C18_MixedSigns ==
    /\ op = "calculate_total_load"
    /\ args.loads = <<[value |-> QOf[1], unit |-> "KG"],
                      [value |-> QOf[-2], unit |-> "N/m"]>>
    /\ result.ok
    /\ QEq[result.val, QFrac[781, 100000]]

\* C19: for span > 0 and load > 0, calculate_moment returns w * span^2 / 8
\* for "uniform" and P * span / 4 for "point_center", and
\* calculate_shear_force returns w * span / 2 for "uniform" and P / 2 for
\* "point_center".
C19_MomentAndShearFormulas ==
    /\ (op = "calculate_moment" /\ args.load_type = "uniform")
        => result.ok /\ QEq[result.val, QFrac[args.total_load * args.span * args.span, 8]]
    /\ (op = "calculate_moment" /\ args.load_type = "point_center")
        => result.ok /\ QEq[result.val, QFrac[args.total_load * args.span, 4]]
    /\ (op = "calculate_shear_force" /\ args.load_type = "uniform")
        => result.ok /\ QEq[result.val, QFrac[args.total_load * args.span, 2]]
    /\ (op = "calculate_shear_force" /\ args.load_type = "point_center")
        => result.ok /\ QEq[result.val, QFrac[args.total_load, 2]]

\* a point load of 3 kN at midspan of a 4 m beam: shear 1.5 kN
C19_PointShear ==
    /\ op = "calculate_shear_force"
    /\ args.load_type = "point_center"
    /\ args.span = 4
    /\ args.total_load = 3
    /\ result.ok
    /\ QEq[result.val, QFrac[3, 2]]

\* the outcome of the call of thread record th when it runs alone
Alone(th) ==
    IF th.name = "check_section_capacity"
    THEN check_section_capacity(QOf[th.args.moment], QOf[th.args.section_modulus],
                                th.args.steel_grade, th.args.code)
    ELSE select_optimal_section(QOf[th.args.moment], QOf[th.args.span],
                                th.args.load_type, th.args.steel_grade,
                                th.args.code, th.args.section_type)

\* C20: concurrent calls from independent threads, in any interleaving, each
\* return what the same call returns when run alone; the steel-grade table
\* and the safety factors are never written: they keep the values of
\* src/constants.py (the thirteen grades, 1.5 and 1.67).
C20_ThreadsDoNotInterfere ==
    /\ DOMAIN globals.STEEL_YIELD_STRENGTH = TableGrades
    /\ globals = ModuleGlobals
    /\ QEq[globals.SAFETY_FACTOR_EGYPTIAN, QFrac[3, 2]]
    /\ QEq[globals.SAFETY_FACTOR_AMERICAN, QFrac[167, 100]]
    /\ \A t \in Threads :
          threads[t].pc = "done" => threads[t].result = Alone(threads[t])

\* two calls in flight on the unknown grade "XYZ99": one select past its
\* lookup with the default, while a capacity check has ended in the error
C20_LookupsInterleaved ==
    \E t, u \in Threads :
        /\ threads[t].pc = "capacity_fy"
        /\ threads[t].name = "select_optimal_section"
        /\ threads[t].args.steel_grade = "XYZ99"
        /\ threads[u].pc = "done"
        /\ threads[u].name = "check_section_capacity"
        /\ threads[u].args.steel_grade = "XYZ99"
        /\ ~threads[u].result.ok

---------------------------------------------------------------------------
(* Claims about the orchestrator's single pass and the synthesizer *)

\* the position of a step in the body of select_optimal_section
StepRank(pc) ==
    CASE pc = "select_fy"      -> 1
      [] pc = "select_sf"      -> 2
      [] pc = "capacity_fy"    -> 3
      [] pc = "capacity_sf"    -> 4
      [] pc = "compactness_fy" -> 5
      [] pc = "ltb_fy"         -> 6
      [] pc = "ltb_sf"         -> 7
      [] pc = "done"           -> 8
      [] OTHER                 -> 0

\* thread record th runs select_optimal_section on valid inputs
ValidDesign(th) ==
    /\ th.pc # "idle"
    /\ th.name = "select_optimal_section"
    /\ th.args.moment > 0
    /\ th.args.span > 0
    /\ th.args.steel_grade \in TableGrades
    /\ th.args.section_type \in {"I-Beam", "Channel"}
    /\ th.args.load_type \in {"uniform", "point_center"}

\* the nine fields of a DesignResult
DesignFields ==
    {"section_properties", "required_section_modulus", "provided_section_modulus",
     "deflection", "capacity_check", "deflection_check", "compactness_check",
     "ltb_check", "overall_status"}

\* the section a running design holds, once it is sized
SizedSection(th) ==
    IF th.pc = "done" THEN th.result.val.section_properties
    ELSE th.loc.section_properties

\* one step of a valid design: the next position of the body and no other,
\* the section once sized is the section from then on, and the design ends
\* in a result of nine fields
SinglePassStep(t) ==
    ValidDesign(threads[t]) /\ threads[t].pc # "done" /\ threads'[t] # threads[t] =>
        /\ StepRank(threads'[t].pc) = StepRank(threads[t].pc) + 1
        /\ threads'[t].pc = "done" =>
              /\ threads'[t].result.ok
              /\ DOMAIN threads'[t].result.val = DesignFields
        /\ StepRank(threads[t].pc) >= 3 =>
              SizedSection(threads'[t]) = SizedSection(threads[t])

\* C21: for valid inputs (M > 0, span > 0, known grade, supported section
\* type and load type) select_optimal_section terminates after a single
\* pass: every step moves to the next position of the body, so the section
\* is synthesized once and each of the four checks runs once on that
\* section; the call ends in a DesignResult of nine fields, even when a
\* check is Unsafe, and the section is never sized again.
C21_SinglePass ==
    /\ [][\A t \in Threads : SinglePassStep(t)]_vars
    /\ \A t \in Threads :
          (ValidDesign(threads[t]) /\ threads[t].pc = "select_fy")
              ~> (threads[t].pc = "done" /\ threads[t].result.ok
                  /\ DOMAIN threads[t].result.val = DesignFields)

\* a valid design has returned with an Unsafe verdict, as it is
C21_UnsafeReturned ==
    \E t \in Threads :
        /\ ValidDesign(threads[t])
        /\ threads[t].pc = "done"
        /\ threads[t].result.ok
        /\ threads[t].result.val.overall_status = "Unsafe"
        /\ threads[t].result.val.deflection_check.status = "Unsafe"

\* the caller holds a design returned by select_optimal_section
Designed ==
    /\ op = "select_optimal_section"
    /\ result.ok

\* C22: every section synthesized by select_optimal_section, for every
\* required modulus > 0 and both section types, has a positive web height
\* (height - 2*flange_thickness > 0), has height, width, web_thickness and
\* flange_thickness all > 0, and has Zx = Ix/(height/2).
C22_SectionInvariant ==
    Designed =>
        LET s == result.val.section_properties
        IN  /\ QLt[Q0, QSub[s.height, QMul[QOf[2], s.flange_thickness]]]
            /\ QLt[Q0, s.height]
            /\ QLt[Q0, s.width]
            /\ QLt[Q0, s.web_thickness]
            /\ QLt[Q0, s.flange_thickness]
            /\ QEq[QMul[s.Zx, QDiv[s.height, QOf[2]]], s.Ix]

\* an I-Beam sized above its minimum height, with more than the minimum
\* flange thickness
C22_TallIBeam ==
    /\ Designed
    /\ result.val.section_properties.type = "I-Beam"
    /\ result.val.section_properties.name[2] > 300
    /\ result.val.section_properties.name[5] > 7
    /\ QLt[Q0, result.val.required_section_modulus]

\* the dimensions before rounding, as the sizing heuristic gives them for
\* the required modulus: <<height, width, web_thickness, flange_thickness>>
Heuristic(section_type, required_Z) ==
    IF section_type = "I-Beam"
    THEN LET height == Max2[160, CeilSqrt[QDiv[required_Z, QOf[20]]]]
         IN  <<height, Max2[82, CeilDiv[height, 2]], Max2[5, CeilDiv[height, 40]],
               Max2[7, CeilDiv[height, 25]]>>
    ELSE LET height == Max2[100, CeilSqrt[QDiv[required_Z, QOf[8]]]]
         IN  <<height, Max2[50, CeilDiv[height, 3]], Max2[4, CeilDiv[height, 50]],
               Max2[5, CeilDiv[height, 30]]>>

\* the final dimensions dims are the heuristic's dimensions h rounded up
RoundedUp(dims, h, section_type, required_Z) ==
    /\ dims[2] % 10 = 0
    /\ dims[2] >= h[1]
    /\ dims[2] >= (IF section_type = "I-Beam" THEN 160 ELSE 100)
    /\ QLe[required_Z, QOf[(IF section_type = "I-Beam" THEN 20 ELSE 8)
                           * dims[2] * dims[2]]]
    /\ dims[3] % 5 = 0
    /\ \A i \in 2..4 : dims[i + 1] >= h[i]
    /\ dims[3] >= (IF section_type = "I-Beam" THEN 82 ELSE 50)
    /\ dims[4] >= (IF section_type = "I-Beam" THEN 5 ELSE 4)
    /\ dims[5] >= (IF section_type = "I-Beam" THEN 7 ELSE 5)

\* C23: in the synthesizer every dimension is only ever rounded up: the
\* final height is a multiple of 10 mm and at least
\* max(minimum height, ceil(sqrt(Zreq/k))), with k = 20 and minimum 160 for
\* an I-Beam, k = 8 and minimum 100 for a Channel; the final width is a
\* multiple of 5 mm; width, web_thickness and flange_thickness are each at
\* least their value before rounding and their minimum for the type.
C23_RoundedUp ==
    Designed =>
        RoundedUp(result.val.section_properties.name,
                  Heuristic(args.section_type, result.val.required_section_modulus),
                  args.section_type, result.val.required_section_modulus)

\* a Channel whose heuristic height is no multiple of 10 and whose heuristic
\* width is no multiple of 5: both are rounded
C23_ChannelRounded ==
    /\ Designed
    /\ args.section_type = "Channel"
    /\ Heuristic("Channel", result.val.required_section_modulus)[1] % 10 # 0
    /\ Heuristic("Channel", result.val.required_section_modulus)[2] % 5 # 0
    /\ Heuristic("Channel", result.val.required_section_modulus)[1] > 100

\* the caller holds a classification returned by check_compactness
Classified ==
    /\ op = "check_compactness"
    /\ result.ok

\* sqrt(E/fy) for the grade of the call, E = 200000 MPa
RootOf(steel_grade) ==
    QSqrt[QDiv[QOf[200000], QOf[STEEL_YIELD_STRENGTH[steel_grade]]]]

\* (width/2)/flange_thickness of section s
FlangeRatio(s) == QDiv[QDiv[s.width, QOf[2]], s.flange_thickness]

\* (height - 2*flange_thickness)/web_thickness of section s
WebRatio(s) ==
    QDiv[QSub[s.height, QMul[QOf[2], s.flange_thickness]], s.web_thickness]

\* C24: check_compactness classifies a section as Compact if and only if
\* flange_ratio = (width/2)/flange_thickness <= 0.38*sqrt(E/fy) and
\* web_ratio = (height - 2*flange_thickness)/web_thickness <= 3.76*sqrt(E/fy),
\* and as Non-Compact otherwise; for the same section and grade the whole
\* result is the same under the Egyptian and the American code.
C24_CompactIffBothRatios ==
    Classified =>
        /\ QEq[result.val.flange_ratio, FlangeRatio(args.section_properties)]
        /\ QEq[result.val.web_ratio, WebRatio(args.section_properties)]
        /\ result.val.classification \in {"Compact", "Non-Compact"}
        /\ result.val.classification = "Compact" <=>
              /\ QLe[FlangeRatio(args.section_properties),
                     QMul[QFrac[38, 100], RootOf(args.steel_grade)]]
              /\ QLe[WebRatio(args.section_properties),
                     QMul[QFrac[376, 100], RootOf(args.steel_grade)]]
        /\ \A code \in {"egyptian", "american"} :
              check_compactness(args.section_properties, args.steel_grade, code)
                  = result

\* a section whose flange is within its limit and whose web is not, checked
\* under the American code: Non-Compact
C24_SlenderWeb ==
    /\ Classified
    /\ Lower(args.code) = "american"
    /\ result.val.flange_status = "Compact"
    /\ result.val.web_status = "Non-Compact"
    /\ result.val.classification = "Non-Compact"

\* the formula labels, written here with ^ for the superscripts of the source
UniformLabel == "5wL^4/(384EI)"

PointLabel == "PL^3/(48EI)"

\* C25: calculate_deflection called without a second moment of area returns
\* only the formula label, "5wL⁴/(384EI)" for the uniform load type and
\* "PL³/(48EI)" for point_center, and never a numeric value.
C25_LabelWithoutInertia ==
    (/\ op = "calculate_deflection"
     /\ args.inertia = None
     /\ args.load_type \in {"uniform", "point_center"})
        => /\ result.ok
           /\ result.val \in STRING
           /\ result.val = (IF args.load_type = "uniform" THEN UniformLabel
                            ELSE PointLabel)

\* a point load at the centre, no inertia given: the point-load label
C25_PointLabelReturned ==
    /\ op = "calculate_deflection"
    /\ args.inertia = None
    /\ args.load_type = "point_center"
    /\ result.ok
    /\ result.val = PointLabel

\* C26: in every DesignResult returned by select_optimal_section,
\* capacity_check.utilization equals required_section_modulus /
\* provided_section_modulus, so capacity_check.status is Safe if and only if
\* provided_section_modulus >= required_section_modulus.
C26_UtilizationIsModulusRatio ==
    Designed =>
        /\ QEq[result.val.capacity_check.utilization,
               QDiv[result.val.required_section_modulus,
                    result.val.provided_section_modulus]]
        /\ result.val.capacity_check.status = "Safe" <=>
              QLe[result.val.required_section_modulus,
                  result.val.provided_section_modulus]

\* a design whose section provides less than the required modulus: the
\* capacity check is Unsafe
C26_UnderProvided ==
    /\ Designed
    /\ QLt[result.val.provided_section_modulus, result.val.required_section_modulus]
    /\ result.val.capacity_check.status = "Unsafe"
    /\ QLt[Q1, result.val.capacity_check.utilization]

\* C27: the critical_case string returned by calculate_critical_moment
\* always names a key of the returned combinations map, and the moment
\* stored under that key equals critical_moment.
C27_CriticalCaseIsKey ==
    (op = "calculate_critical_moment" /\ result.ok) =>
        /\ result.val.critical_case \in DOMAIN result.val.combinations
        /\ QEq[result.val.combinations[result.val.critical_case],
               result.val.critical_moment]

\* C28: inside select_optimal_section the deflection check always applies
\* the L/360 limit: for every load_type the
\* deflection_check.allowable_deflection equals span*1000/360 and
\* limit_ratio is "L/360", so the L/240 limit is never reached through the
\* orchestrator.
C28_AlwaysL360 ==
    Designed =>
        /\ QEq[result.val.deflection_check.allowable_deflection,
               QDiv[QOf[args.span * 1000], QOf[360]]]
        /\ result.val.deflection_check.limit_ratio = "L/360"

\* a point-load design, checked as a roof: its deflection is within L/240
\* and beyond L/360, and the check is Unsafe
C28_PointLoadBetweenLimits ==
    /\ Designed
    /\ args.load_type = "point_center"
    /\ QLe[result.val.deflection, QDiv[QOf[args.span * 1000], QOf[240]]]
    /\ QLt[result.val.deflection_check.allowable_deflection, result.val.deflection]
    /\ result.val.deflection_check.status = "Unsafe"

\* C29: in every DesignResult returned by select_optimal_section the LTB
\* check is determinate: the synthesized section always carries Iy, J and
\* Cw, so ltb_check.status is either Safe or Unsafe and
\* ltb_check.utilization is a number, never the missing-properties outcome.
C29_LtbDeterminate ==
    Designed =>
        /\ {"Iy", "J", "Cw"} \subseteq DOMAIN result.val.section_properties
        /\ \A k \in {"Iy", "J", "Cw"} : result.val.section_properties[k] \in Rat
        /\ result.val.ltb_check.status \in {"Safe", "Unsafe"}
        /\ result.val.ltb_check.status # Indeterminate
        /\ "note" \notin DOMAIN result.val.ltb_check
        /\ result.val.ltb_check.utilization \in Rat
        /\ result.val.ltb_check.status = "Safe" <=>
              QLe[result.val.ltb_check.utilization, Q1]

\* a Channel design whose LTB check has a verdict: Unsafe, with a
\* utilization above 1
C29_ChannelLtbUnsafe ==
    /\ Designed
    /\ args.section_type = "Channel"
    /\ result.val.ltb_check.status = "Unsafe"
    /\ QLt[Q1, result.val.ltb_check.utilization]

\* C30: every section synthesized by select_optimal_section is classified
\* Compact: for every M > 0, every steel grade of the table, both codes and
\* both section types, compactness_check.classification in the returned
\* DesignResult is Compact, the flange ratio and the web ratio both within
\* their limits.
C30_SynthesizedIsCompact ==
    Designed /\ args.steel_grade \in DOMAIN STEEL_YIELD_STRENGTH =>
        /\ result.val.compactness_check.classification = "Compact"
        /\ result.val.compactness_check.flange_status = "Compact"
        /\ result.val.compactness_check.web_status = "Compact"
        /\ QLe[result.val.compactness_check.flange_ratio,
               result.val.compactness_check.flange_compact_limit]
        /\ QLe[result.val.compactness_check.web_ratio,
               result.val.compactness_check.web_compact_limit]

\* the grade with the highest yield strength, so the lowest limits, on an
\* I-Beam sized well above its minimum: Compact
C30_S500TallIBeam ==
    /\ Designed
    /\ args.steel_grade = "S500"
    /\ args.section_type = "I-Beam"
    /\ result.val.section_properties.name[2] >= 300
    /\ result.val.compactness_check.classification = "Compact"

====
